---------------------------- MODULE Spec2Model ----------------------------
(***************************************************************************)
(* Behavioural detection engine of the intrusion detector:                 *)
(*   - PortScanDetector (src/port_scan_detector.py): the per-source        *)
(*     sliding-window tracker and its scan signatures;                     *)
(*   - CyberSentinelMod (src/cyber_sentinel_mod.py): classifier,           *)
(*     behavioural and heuristic results fused by analyze_packet;          *)
(*   - AutomaticDetector (src/attack_categories.py) and the alert rate     *)
(*     limiter of src/app.py;                                              *)
(*   - ModelServer (src/model_server.py): connections, request dispatch,   *)
(*     the buffer of labeled samples and the retrainer thread.             *)
(*                                                                         *)
(* Timestamps are whole seconds (the code holds datetime objects and only  *)
(* subtracts and compares them).  A float confidence or rate is the exact  *)
(* fraction <<numerator, denominator>> with a positive denominator.        *)
(***************************************************************************)
EXTENDS Integers, Sequences, FiniteSets, TLC

VARIABLES
    ip_tracking,   \* PortScanDetector.ip_tracking: srcip -> tracked state
    hist,          \* per source, the (timestamp, flag, protocol) samples appended so far
    request,       \* the packet of the most recent analyze_packet call
    response,      \* what that call returned
    trace,         \* the packets fed in a behaviour of SpecSig, in order
    enabled_attacks,    \* AutomaticDetector.enabled_attacks
    detection_rules,    \* AutomaticDetector.detection_rules: id -> rules
    response_actions,   \* AutomaticDetector.response_actions: id -> action
    auto_result,        \* what the last call on the AutomaticDetector returned
    threat_rate_limiter,        \* app.threat_rate_limiter: rate key -> time
    THREAT_RATE_LIMIT_SECONDS,  \* app.THREAT_RATE_LIMIT_SECONDS
    clock,              \* time.time(), in whole seconds
    emitted,            \* per rate key, the last detection add_threat_detection returned
    dedup_result,       \* the last add_threat_detection / api_rate_limit call
    _stop,              \* ModelServer._stop
    process,            \* the server process: "up" or "exited"
    conn,               \* per connection: socket state, bytes in flight, handler locals
    update_buffer,      \* ModelServer.update_buffer
    fed,                \* number of labeled samples appended to update_buffer so far
    updates,            \* the files written under models/updates, in order of writing
    drain_clock,        \* int(time.time()) as the retrainer thread sees it
    retrainer,          \* the retrainer thread: "sleeping", "stopped" or "killed"
    srv_result,         \* the last _process_request call
    drain_result,       \* the last wake-up of _background_retrainer
    scan_worker,        \* per worker thread inside detect_port_scan: position and locals
    dedup_worker,       \* per worker thread inside add_threat_detection: position and locals
    update_lock,        \* ModelServer.update_lock: "free" or the thread that holds it
    feed_worker,        \* per handler thread queuing a labeled sample: position
    drained             \* ids of the samples the retrainer popped, in order

engine_vars == <<ip_tracking, hist, request, response, trace>>
matcher_vars == <<enabled_attacks, detection_rules, response_actions, auto_result>>
dedup_vars == <<threat_rate_limiter, THREAT_RATE_LIMIT_SECONDS, clock, emitted,
                dedup_result>>
server_vars == <<_stop, process, conn, update_buffer, fed, updates, drain_clock,
                 retrainer, srv_result, drain_result>>
queue_vars == <<update_lock, feed_worker, drained>>
race_vars == <<scan_worker, dedup_worker, queue_vars>>
vars == <<engine_vars, matcher_vars, dedup_vars, server_vars, race_vars>>

-----------------------------------------------------------------------------
(* Bounds of the model *)

\* analyze_packet calls in a behaviour of Spec
MaxObs == 4
\* analyze_packet calls in a behaviour of SpecBurst
MaxBurstObs == 52
\* analyze_packet calls in a behaviour of SpecSig
MaxSigObs == 16
\* rules enabled at the same time in a behaviour of SpecRules
MaxEnabled == 2
\* the last second of a behaviour of SpecDedup
MaxClock == 9

-----------------------------------------------------------------------------
(* Program constants *)

window_size == 60
threshold_ports == 10
RateLimit == 5
SynMinCount == 5
StealthMinCount == 3
UdpMinCount == 10
UdpMinPorts == 8
WellKnownPort == 1023
WellKnownMinCount == 15
SeqMinPorts == 5
SeqMaxGap == 2
DosRate == 50
BruteMinConns == 20
BruteMaxPorts == 5
ServiceMinHits == 10

NoneStr == "<None>"
NoIdx == -1

-----------------------------------------------------------------------------
(* Fractions standing for Python floats *)

RLt(a, b) == a[1] * b[2] < b[1] * a[2]
REq(a, b) == a[1] * b[2] = b[1] * a[2]
RLe(a, b) == ~RLt(b, a)
\* Python max(a, b) / min(a, b): the first argument unless the second is strictly beyond it
PyMax(a, b) == IF RLt(a, b) THEN b ELSE a
PyMin(a, b) == IF RLt(b, a) THEN b ELSE a
Zero == <<0, 1>>

Max2(a, b) == IF a >= b THEN a ELSE b

-----------------------------------------------------------------------------
(* PortScanDetector *)

Sources == {"10.0.0.1", "10.0.0.2"}

\* str.lower() on the protocol names the feeders send
Lower(s) ==
    CASE s = "TCP" -> "tcp"
      [] s = "UDP" -> "udp"
      [] s = "ICMP" -> "icmp"
      [] OTHER -> s

HasBit(flags, bit) == (flags \div bit) % 2 = 1

flag_map == << <<1, "FIN">>, <<2, "SYN">>, <<4, "RST">>,
               <<8, "PSH">>, <<16, "ACK">>, <<32, "URG">> >>

RECURSIVE Join(_)
Join(names) ==
    IF Len(names) = 0 THEN ""
    ELSE IF Len(names) = 1 THEN names[1]
    ELSE names[1] \o "-" \o Join(Tail(names))

\* flags is [str |-> TRUE, v |-> label] or [str |-> FALSE, v |-> mask]
_parse_tcp_flags(flags) ==
    IF flags.str THEN flags.v
    ELSE IF flags.v = 0 THEN "NULL"
    ELSE
        LET hit(e) == HasBit(flags.v, e[1])
            flag_str == [i \in 1..Len(SelectSeq(flag_map, hit)) |->
                            SelectSeq(flag_map, hit)[i][2]]
            has(n) == \E i \in 1..Len(flag_str) : flag_str[i] = n
            result == IF Len(flag_str) > 0 THEN Join(flag_str) ELSE "NULL"
        IN  IF has("FIN") /\ has("PSH") /\ has("URG") THEN "XMAS"
            ELSE IF result = "SYN" THEN "S"
            ELSE IF result = "FIN" THEN "F"
            ELSE result

\* extract_port_scan_features stamping the packet with the time of the call
\* (the number of packets fed before it) instead of the packet's timestamp
ExtractAtCallTime(packet) ==
    [srcip     |-> packet.srcip,
     dst_port  |-> packet.dst_port,
     protocol  |-> Lower(packet.protocol),
     flags     |-> _parse_tcp_flags(packet.flags),
     timestamp |-> Len(trace)]

extract_port_scan_features(packet) ==
    [srcip     |-> packet.srcip,
     dst_port  |-> packet.dst_port,
     protocol  |-> Lower(packet.protocol),
     flags     |-> _parse_tcp_flags(packet.flags),
     timestamp |-> packet.timestamp]

\* the default factory of ip_tracking
NewIpData ==
    [ports |-> {}, timestamps |-> <<>>, connection_attempts |-> <<>>,
     flags |-> <<>>, protocols |-> <<>>]

IpData(tracking, srcip) ==
    IF srcip \in DOMAIN tracking THEN tracking[srcip] ELSE NewIpData

PopLeft(q) == IF Len(q) > 0 THEN Tail(q) ELSE q

Last(q) == q[Len(q)]

\* _clean_old_entries evicting an entry that is exactly window_size old
RECURSIVE CleanInclusive(_, _)
CleanInclusive(ip_data, current_time) ==
    LET cutoff_time == current_time - window_size
    IN  IF Len(ip_data.timestamps) > 0 /\ ip_data.timestamps[1] <= cutoff_time
        THEN CleanInclusive(
                 [ip_data EXCEPT !.timestamps = Tail(@),
                                 !.flags = PopLeft(@),
                                 !.protocols = PopLeft(@)],
                 current_time)
        ELSE ip_data

\* _clean_old_entries leaving the protocol labels of evicted entries behind
RECURSIVE CleanSkipsProtocols(_, _)
CleanSkipsProtocols(ip_data, current_time) ==
    LET cutoff_time == current_time - window_size
    IN  IF Len(ip_data.timestamps) > 0 /\ ip_data.timestamps[1] < cutoff_time
        THEN CleanSkipsProtocols(
                 [ip_data EXCEPT !.timestamps = Tail(@),
                                 !.flags = PopLeft(@)],
                 current_time)
        ELSE ip_data

\* _clean_old_entries emptying the port set with the first entry it removes
RECURSIVE CleanForgetsPorts(_, _)
CleanForgetsPorts(ip_data, current_time) ==
    LET cutoff_time == current_time - window_size
    IN  IF Len(ip_data.timestamps) > 0 /\ ip_data.timestamps[1] < cutoff_time
        THEN CleanForgetsPorts(
                 [ip_data EXCEPT !.ports = {},
                                 !.timestamps = Tail(@),
                                 !.flags = PopLeft(@),
                                 !.protocols = PopLeft(@)],
                 current_time)
        ELSE ip_data

\* PortScanDetector._clean_old_entries
RECURSIVE _clean_old_entries(_, _)
_clean_old_entries(ip_data, current_time) ==
    LET cutoff_time == current_time - window_size
    IN  IF Len(ip_data.timestamps) > 0 /\ ip_data.timestamps[1] < cutoff_time
        THEN _clean_old_entries(
                 [ip_data EXCEPT !.timestamps = Tail(@),
                                 !.flags = PopLeft(@),
                                 !.protocols = PopLeft(@)],
                 current_time)
        ELSE ip_data

\* UpdateTracking forgetting the ports of entries that left the window
UpdateTrackingResetsPorts(ip_data, features) ==
    LET d == _clean_old_entries(
                 [ip_data EXCEPT !.timestamps = Append(@, features.timestamp),
                                 !.flags = Append(@, features.flags),
                                 !.protocols = Append(@, features.protocol)],
                 features.timestamp)
    IN  [d EXCEPT !.ports = IF Len(d.timestamps) = 1 THEN {features.dst_port}
                            ELSE @ \cup {features.dst_port}]

\* lines 170-178: record the observation, then clean
UpdateTracking(ip_data, features) ==
    _clean_old_entries(
        [ip_data EXCEPT !.ports = @ \cup {features.dst_port},
                        !.timestamps = Append(@, features.timestamp),
                        !.flags = Append(@, features.flags),
                        !.protocols = Append(@, features.protocol)],
        features.timestamp)

RECURSIVE Sorted(_)
Sorted(S) ==
    IF S = {} THEN <<>>
    ELSE LET m == CHOOSE x \in S : \A y \in S : x <= y
         IN  <<m>> \o Sorted(S \ {m})

_detect_sequential_ports(ports) ==
    IF Cardinality(ports) < SeqMinPorts THEN FALSE
    ELSE
        LET sorted_ports == Sorted(ports)
            sequential_count ==
                Cardinality({i \in 1..(Len(sorted_ports) - 1) :
                                sorted_ports[i + 1] - sorted_ports[i] <= SeqMaxGap})
        IN  \* sequential_count / len(sorted_ports) > 0.6
            10 * sequential_count > 6 * Len(sorted_ports)

\* sum(1 for x in q if x in S)
Count(q, S) == Cardinality({i \in 1..Len(q) : q[i] \in S})

\* 'XMAS' in f or 'FPU' in f, over the labels the tracker can hold here
XmasLike(f) == f \in {"XMAS", "FPU"}

_identify_stealth_scan_type(flags) ==
    LET present(l) == \E i \in 1..Len(flags) : flags[i] = l
    IN  IF present("F") \/ present("FIN") THEN "FIN_SCAN"
        ELSE IF present("NULL") THEN "NULL_SCAN"
        ELSE IF \E i \in 1..Len(flags) : XmasLike(flags[i]) THEN "XMAS_SCAN"
        ELSE "STEALTH_SCAN"

\* Pattern 1's condition (line 193)
VerticalTrigger(ip_data) == Cardinality(ip_data.ports) >= threshold_ports

\* Pattern 1 firing only above threshold_ports
Pattern1StrictThreshold(f, ip_data) ==
    LET unique_ports == Cardinality(ip_data.ports)
    IN  IF unique_ports > threshold_ports
        THEN [f EXCEPT !.scan_detected = TRUE, !.scan_type = "VERTICAL_SCAN",
                       !.confidence = PyMin(<<95, 100>>,
                                            <<50 * threshold_ports + 45 * unique_ports,
                                              100 * threshold_ports>>),
                       !.severity = "HIGH"]
        ELSE f

\* lines 192-198
Pattern1(f, ip_data) ==
    LET unique_ports == Cardinality(ip_data.ports)
    IN  IF VerticalTrigger(ip_data)
        THEN [f EXCEPT !.scan_detected = TRUE, !.scan_type = "VERTICAL_SCAN",
                       !.confidence = PyMin(<<95, 100>>,
                                            <<50 * threshold_ports + 45 * unique_ports,
                                              100 * threshold_ports>>),
                       !.severity = "HIGH"]
        ELSE f

\* Pattern 2 firing at the rate limit already
Pattern2AtLimit(f, connection_rate) ==
    IF RLe(<<RateLimit, 1>>, connection_rate)
    THEN [f EXCEPT !.scan_detected = TRUE,
                   !.scan_type = IF @ = NoneStr THEN "RAPID_SCAN" ELSE @,
                   !.confidence = PyMax(@, PyMin(<<98, 100>>,
                                   <<600 * connection_rate[2] + 38 * connection_rate[1],
                                     1000 * connection_rate[2]>>)),
                   !.severity = "HIGH"]
    ELSE f

\* lines 200-207
Pattern2(f, connection_rate) ==
    IF RLt(<<RateLimit, 1>>, connection_rate)
    THEN [f EXCEPT !.scan_detected = TRUE,
                   !.scan_type = IF @ = NoneStr THEN "RAPID_SCAN" ELSE @,
                   !.confidence = PyMax(@, PyMin(<<98, 100>>,
                                   <<600 * connection_rate[2] + 38 * connection_rate[1],
                                     1000 * connection_rate[2]>>)),
                   !.severity = "HIGH"]
    ELSE f

\* Pattern 3's condition (line 210)
SequentialTrigger(ip_data) == _detect_sequential_ports(ip_data.ports)

\* Pattern 3 naming the scan only when no earlier pattern has
Pattern3KeepsType(f, ip_data) ==
    IF SequentialTrigger(ip_data)
    THEN [f EXCEPT !.scan_detected = TRUE,
                   !.scan_type = IF @ = NoneStr THEN "SEQUENTIAL_SCAN" ELSE @,
                   !.confidence = PyMax(@, <<92, 100>>), !.severity = "HIGH"]
    ELSE f

\* lines 209-215
Pattern3(f, ip_data) ==
    IF SequentialTrigger(ip_data)
    THEN [f EXCEPT !.scan_detected = TRUE, !.scan_type = "SEQUENTIAL_SCAN",
                   !.confidence = PyMax(@, <<92, 100>>), !.severity = "HIGH"]
    ELSE f

syn_flags == {"S", "SYN"}

\* Pattern 4's condition (lines 218-219); the ratio test is
\* syn_only_count / len(flags) > 0.7
SynTrigger(ip_data) ==
    LET syn_only_count == Count(ip_data.flags, syn_flags)
    IN  /\ syn_only_count > SynMinCount
        /\ Len(ip_data.flags) > 0
        /\ 10 * syn_only_count > 7 * Len(ip_data.flags)

\* lines 217-224
Pattern4(f, ip_data) ==
    IF SynTrigger(ip_data)
    THEN [f EXCEPT !.scan_detected = TRUE, !.scan_type = "SYN_SCAN",
                   !.confidence = PyMax(@, <<96, 100>>), !.severity = "HIGH"]
    ELSE f

stealth_flags == {"F", "FIN", "NULL", "FPU", "XMAS"}

\* Pattern 5's condition (lines 227-229)
StealthTrigger(ip_data) == Count(ip_data.flags, stealth_flags) > StealthMinCount

\* lines 226-234
Pattern5(f, ip_data) ==
    IF StealthTrigger(ip_data)
    THEN [f EXCEPT !.scan_detected = TRUE,
                   !.scan_type = _identify_stealth_scan_type(ip_data.flags),
                   !.confidence = PyMax(@, <<98, 100>>), !.severity = "CRITICAL"]
    ELSE f

\* Pattern 6's condition (lines 237-238)
UdpTrigger(ip_data) ==
    /\ Count(ip_data.protocols, {"udp"}) > UdpMinCount
    /\ Cardinality(ip_data.ports) > UdpMinPorts

\* lines 236-243
Pattern6(f, ip_data) ==
    IF UdpTrigger(ip_data)
    THEN [f EXCEPT !.scan_detected = TRUE, !.scan_type = "UDP_SCAN",
                   !.confidence = PyMax(@, <<89, 100>>), !.severity = "MEDIUM"]
    ELSE f

\* Pattern 7 escalating one well-known port later
Pattern7Late(f, ip_data) ==
    IF Cardinality({p \in ip_data.ports : p <= WellKnownPort}) > WellKnownMinCount + 1
    THEN [f EXCEPT !.severity = "CRITICAL"]
    ELSE f

\* lines 245-249
Pattern7(f, ip_data) ==
    IF Cardinality({p \in ip_data.ports : p <= WellKnownPort}) > WellKnownMinCount
    THEN [f EXCEPT !.severity = "CRITICAL"]
    ELSE f

\* lines 186-190
NoFinding == [scan_detected |-> FALSE, scan_type |-> NoneStr,
              confidence |-> Zero, severity |-> "LOW"]

\* lines 181-183: the span of the retained timestamps and the rate over it
TimeWindowSeconds(ip_data) ==
    LET n == Len(ip_data.timestamps)
    IN  IF n > 1 THEN ip_data.timestamps[n] - ip_data.timestamps[1] ELSE 1

ConnectionRate(ip_data) ==
    <<Len(ip_data.timestamps), Max2(TimeWindowSeconds(ip_data), 1)>>

\* Pattern 2's condition (line 201)
RapidTrigger(ip_data) == RLt(<<RateLimit, 1>>, ConnectionRate(ip_data))

\* Pattern 7's condition (lines 246-247)
WellKnownTrigger(ip_data) ==
    Cardinality({p \in ip_data.ports : p <= WellKnownPort}) > WellKnownMinCount

\* lines 185-243: patterns 1 to 6 in order
FirstSix(ip_data) ==
    Pattern6(Pattern5(Pattern4(Pattern3(Pattern2(
        Pattern1(NoFinding, ip_data), ConnectionRate(ip_data)), ip_data),
        ip_data), ip_data), ip_data)

\* lines 180-278: the metrics, the seven patterns in order, the result
EvaluateSignatures(ip_data, features) ==
    LET f == Pattern7(FirstSix(ip_data), ip_data)
    IN  [port_scan_available   |-> TRUE,
         threat_detected       |-> f.scan_detected,
         attack_type           |-> IF f.scan_detected THEN f.scan_type ELSE "Normal",
         confidence            |-> f.confidence,
         severity              |-> IF f.scan_detected THEN f.severity ELSE "NONE",
         source_ip             |-> features.srcip,
         unique_ports_accessed |-> Cardinality(ip_data.ports),
         connection_rate       |-> ConnectionRate(ip_data),
         time_window           |-> TimeWindowSeconds(ip_data),
         total_connections     |-> Len(ip_data.timestamps)]

\* PortScanDetector.detect_port_scan: the new tracking map and the result
detect_port_scan(tracking, packet) ==
    LET features == extract_port_scan_features(packet)
        srcip == features.srcip
        ip_data == UpdateTracking(IpData(tracking, srcip), features)
    IN  [tracking |-> [s \in DOMAIN tracking \cup {srcip} |->
                          IF s = srcip THEN ip_data ELSE tracking[s]],
         result   |-> EvaluateSignatures(ip_data, features)]

-----------------------------------------------------------------------------
(* CyberSentinelMod *)

model_name == "CICIDS2017_5class_model"

\* str.upper() on the labels the classifier's encoder can return
Upper(s) ==
    CASE s = "Normal" -> "NORMAL"
      [] s = "Benign" -> "BENIGN"
      [] s = "DoS" -> "DOS"
      [] s = "PortScan" -> "PORTSCAN"
      [] s = "Mystery" -> "MYSTERY"
      [] OTHER -> s

\* clf is what the model does on this call:
\*   [kind |-> "no_model"]  self.model is None
\*   [kind |-> "raises"]    preprocessing or model.predict raises
\*   [kind |-> "ok", idx, pred_class, confidence]  (pred_class NoneStr: no encoder)
predict_ml(clf) ==
    IF clf.kind = "ok"
    THEN [ml_available |-> TRUE, pred_class_idx |-> clf.idx,
          pred_class |-> clf.pred_class, confidence |-> clf.confidence,
          error |-> NoneStr]
    ELSE [ml_available |-> FALSE, pred_class_idx |-> NoIdx,
          pred_class |-> NoneStr, confidence |-> Zero,
          error |-> IF clf.kind = "no_model" THEN "Model not loaded"
                    ELSE "prediction raised"]

NoHeuristic == [heuristic |-> NoneStr, confidence |-> Zero, severity |-> "NONE"]

heuristic_classify(tracking, packet) ==
    IF packet.srcip \notin DOMAIN tracking THEN NoHeuristic
    ELSE
        LET ip_state == tracking[packet.srcip]
            total_conns == Len(ip_state.timestamps)
            unique_ports == Cardinality(ip_state.ports)
            time_window ==
                IF total_conns > 1
                THEN ip_state.timestamps[total_conns] - ip_state.timestamps[1]
                ELSE 1
            conn_rate == <<total_conns, Max2(time_window, 1)>>
            well_known_hits == Cardinality({p \in ip_state.ports : p <= WellKnownPort})
        IN  IF RLt(<<DosRate, 1>>, conn_rate)
            THEN [heuristic |-> "DOS_ATTACK",
                  confidence |-> PyMin(<<99, 100>>, <<conn_rate[1], 100 * conn_rate[2]>>),
                  severity |-> "CRITICAL"]
            ELSE IF total_conns > BruteMinConns /\ unique_ports < BruteMaxPorts
            THEN [heuristic |-> "BRUTE_FORCE",
                  confidence |-> PyMin(<<95, 100>>, <<total_conns, 100>>),
                  severity |-> "HIGH"]
            ELSE IF well_known_hits > ServiceMinHits
            THEN [heuristic |-> "SERVICE_SCAN", confidence |-> <<8, 10>>,
                  severity |-> "HIGH"]
            ELSE NoHeuristic

_get_severity_from_attack_type(attack_type) ==
    IF attack_type = "" THEN "LOW"
    ELSE
        LET attack_upper == Upper(attack_type)
        IN  CASE attack_upper \in {"BENIGN", "NORMAL"} -> "NONE"
              [] attack_upper \in {"DOS", "DDOS", "BOT", "WEBATTACK", "WEB_ATTACK",
                                   "BRUTEFORCE", "BRUTE_FORCE", "EXPLOITS"} -> "HIGH"
              [] attack_upper \in {"PORTSCAN", "PORT_SCAN", "FTP-PATATOR", "SSH-PATATOR",
                                   "ANALYSIS", "FUZZERS", "RECONNAISSANCE", "GENERIC"}
                     -> "MEDIUM"
              [] attack_upper \in {"INFILTRATION", "HEARTBLEED", "BACKDOOR",
                                   "SHELLCODE", "WORMS"} -> "CRITICAL"
              [] OTHER -> "MEDIUM"

BenignAliases == {"BENIGN", "NORMAL", "0", "NONE"}

\* line 525: ml_res.get('pred_class') or str(ml_res.get('pred_class_idx'))
PredLabel(ml_res) ==
    IF ml_res.pred_class \notin {NoneStr, ""} THEN ml_res.pred_class
    ELSE ToString(ml_res.pred_class_idx)

\* MlThreat taking the label NORMAL for an attack
MlThreatOnNormal(ml_res) ==
    /\ ml_res.ml_available
    /\ Upper(PredLabel(ml_res)) \notin (BenignAliases \ {"NORMAL"})
    /\ RLe(<<3, 10>>, ml_res.confidence)

\* line 549: the classifier verdict is a threat
MlThreat(ml_res) ==
    /\ ml_res.ml_available
    /\ Upper(PredLabel(ml_res)) \notin BenignAliases
    /\ RLe(<<3, 10>>, ml_res.confidence)

\* line 578: the heuristic finding counts
HeuristicThreat(heuristic_res) ==
    /\ heuristic_res.heuristic # NoneStr
    /\ RLt(<<5, 10>>, heuristic_res.confidence)

\* lines 504-519: the result before any rule
FinalDefaults(packet, ml_res, scan_res, heuristic_res) ==
    [timestamp        |-> packet.timestamp,
     source_ip        |-> packet.srcip,
     ml_result        |-> ml_res,
     port_scan_result |-> scan_res,
     heuristic_result |-> heuristic_res,
     threat_detected  |-> FALSE,
     attack_type      |-> "BENIGN",
     attack_label     |-> "BENIGN",
     confidence       |-> Zero,
     severity         |-> "NONE",
     model_used       |-> NoneStr]

\* lines 549-555: rule 1 returns the classifier's verdict
MlVerdict(final, ml_res) ==
    [final EXCEPT !.threat_detected = TRUE,
                  !.attack_type = PredLabel(ml_res),
                  !.attack_label = PredLabel(ml_res),
                  !.confidence = ml_res.confidence,
                  !.severity = _get_severity_from_attack_type(PredLabel(ml_res)),
                  !.model_used = model_name]

\* lines 523-541 and 556-563: the classifier answered but rule 1 does not
\* return; its confidence and name stay in the result
MlBenign(final, ml_res) ==
    IF ml_res.ml_available
    THEN [final EXCEPT !.confidence = ml_res.confidence,
                       !.model_used = model_name]
    ELSE final

\* lines 566-575: rule 2
ScanVerdict(final, scan_res) ==
    [final EXCEPT !.threat_detected = TRUE,
                  !.attack_type = scan_res.attack_type,
                  !.attack_label = scan_res.attack_type,
                  !.confidence = scan_res.confidence,
                  !.severity = scan_res.severity,
                  !.model_used = "PortScanDetector (backup)"]

\* lines 578-587: rule 3
HeuristicVerdict(final, heuristic_res) ==
    [final EXCEPT !.threat_detected = TRUE,
                  !.attack_type = heuristic_res.heuristic,
                  !.attack_label = heuristic_res.heuristic,
                  !.confidence = heuristic_res.confidence,
                  !.severity = heuristic_res.severity,
                  !.model_used = "Heuristic (backup)"]

\* Fuse with the behavioural finding ahead of the classifier
FuseBehaviorFirst(packet, ml_res, scan_res, heuristic_res) ==
    LET final0 == FinalDefaults(packet, ml_res, scan_res, heuristic_res)
    IN  IF scan_res.threat_detected
        THEN ScanVerdict(MlBenign(final0, ml_res), scan_res)
        ELSE IF MlThreat(ml_res) THEN MlVerdict(final0, ml_res)
        ELSE IF HeuristicThreat(heuristic_res)
        THEN HeuristicVerdict(MlBenign(final0, ml_res), heuristic_res)
        ELSE MlBenign(final0, ml_res)

\* Fuse with a heuristic finding accepted from confidence 0.5
FuseHeuristicAtHalf(packet, ml_res, scan_res, heuristic_res) ==
    LET final0 == FinalDefaults(packet, ml_res, scan_res, heuristic_res)
    IN  IF MlThreat(ml_res) THEN MlVerdict(final0, ml_res)
        ELSE IF scan_res.threat_detected
        THEN ScanVerdict(MlBenign(final0, ml_res), scan_res)
        ELSE IF heuristic_res.heuristic # NoneStr
                /\ RLe(<<5, 10>>, heuristic_res.confidence)
        THEN HeuristicVerdict(MlBenign(final0, ml_res), heuristic_res)
        ELSE MlBenign(final0, ml_res)

\* Fuse returning the default result at once when the classifier is unavailable
FuseMlRequired(packet, ml_res, scan_res, heuristic_res) ==
    LET final0 == FinalDefaults(packet, ml_res, scan_res, heuristic_res)
    IN  IF ~ml_res.ml_available THEN final0
        ELSE IF MlThreat(ml_res) THEN MlVerdict(final0, ml_res)
        ELSE IF scan_res.threat_detected
        THEN ScanVerdict(MlBenign(final0, ml_res), scan_res)
        ELSE IF HeuristicThreat(heuristic_res)
        THEN HeuristicVerdict(MlBenign(final0, ml_res), heuristic_res)
        ELSE MlBenign(final0, ml_res)

\* Fuse with the heuristic finding ahead of the signature engine's
FuseHeuristicFirst(packet, ml_res, scan_res, heuristic_res) ==
    LET final0 == FinalDefaults(packet, ml_res, scan_res, heuristic_res)
    IN  IF MlThreat(ml_res) THEN MlVerdict(final0, ml_res)
        ELSE IF HeuristicThreat(heuristic_res)
        THEN HeuristicVerdict(MlBenign(final0, ml_res), heuristic_res)
        ELSE IF scan_res.threat_detected
        THEN ScanVerdict(MlBenign(final0, ml_res), scan_res)
        ELSE MlBenign(final0, ml_res)

\* lines 504-597: the priority rules on the three sub-results
Fuse(packet, ml_res, scan_res, heuristic_res) ==
    LET final0 == FinalDefaults(packet, ml_res, scan_res, heuristic_res)
    IN  IF MlThreat(ml_res) THEN MlVerdict(final0, ml_res)
        ELSE IF scan_res.threat_detected
        THEN ScanVerdict(MlBenign(final0, ml_res), scan_res)
        ELSE IF HeuristicThreat(heuristic_res)
        THEN HeuristicVerdict(MlBenign(final0, ml_res), heuristic_res)
        ELSE MlBenign(final0, ml_res)

\* the result the code builds when no detector ran
NoScan == [port_scan_available |-> FALSE, threat_detected |-> FALSE,
           attack_type |-> "Normal", confidence |-> Zero, severity |-> "NONE",
           source_ip |-> NoneStr, unique_ports_accessed |-> 0,
           connection_rate |-> Zero, time_window |-> 1, total_connections |-> 0]

\* RunDetectors returning on a classifier threat before the detector is called
RunDetectorsShortCircuit(tracking, packet, clf) ==
    IF MlThreat(predict_ml(clf))
    THEN [tracking |-> tracking,
          final    |-> Fuse(packet, predict_ml(clf), NoScan, NoHeuristic)]
    ELSE LET scan == detect_port_scan(tracking, packet)
         IN  [tracking |-> scan.tracking,
              final    |-> Fuse(packet, predict_ml(clf), scan.result,
                                heuristic_classify(scan.tracking, packet))]

\* lines 499-501 and the priority rules: the detector runs, then the
\* heuristic reads the tracking state the detector has just updated
Combine(packet, ml_res, scan) ==
    [tracking |-> scan.tracking,
     final    |-> Fuse(packet, ml_res, scan.result,
                       heuristic_classify(scan.tracking, packet))]

RunDetectors(tracking, packet, clf) ==
    Combine(packet, predict_ml(clf), detect_port_scan(tracking, packet))

NoRequest == [srcip |-> NoneStr, dst_port |-> 0, protocol |-> NoneStr,
              flags |-> [str |-> TRUE, v |-> NoneStr], timestamp |-> 0]

Sample(packet) ==
    LET f == extract_port_scan_features(packet)
    IN  [timestamp |-> f.timestamp, flags |-> f.flags, protocol |-> f.protocol]

\* CyberSentinelMod.analyze_packet
analyze_packet(packet, clf) ==
    \E out \in {RunDetectors(ip_tracking, packet, clf)} :
        /\ ip_tracking' = out.tracking
        /\ hist' = [hist EXCEPT ![packet.srcip] = Append(@, Sample(packet))]
        /\ request' = packet
        /\ response' = [kind |-> "result", final |-> out.final]

-----------------------------------------------------------------------------
(* AutomaticDetector (src/attack_categories.py) *)

RAdd(a, b) == <<a[1] * b[2] + b[1] * a[2], a[2] * b[2]>>

UpperLetters == "ABCDEFGHIJKLMNOPQRSTUVWXYZ"
LowerLetters == "abcdefghijklmnopqrstuvwxyz"

CharAt(s, i) == SubSeq(s, i, i)

\* the letter of to at the place c has in from, c itself when it has none
MapChar(c, from, to) ==
    IF \E i \in 1..Len(from) : CharAt(from, i) = c
    THEN CharAt(to, CHOOSE i \in 1..Len(from) : CharAt(from, i) = c)
    ELSE c

RECURSIVE str_upper(_)
str_upper(s) ==
    IF Len(s) = 0 THEN ""
    ELSE MapChar(CharAt(s, 1), LowerLetters, UpperLetters) \o str_upper(Tail(s))

RECURSIVE str_lower(_)
str_lower(s) ==
    IF Len(s) = 0 THEN ""
    ELSE MapChar(CharAt(s, 1), UpperLetters, LowerLetters) \o str_lower(Tail(s))

\* sub in s
Contains(s, sub) ==
    \E i \in 1..(Len(s) - Len(sub) + 1) : SubSeq(s, i, i + Len(sub) - 1) = sub

\* AttackSubcategory.CATEGORIES, by sub-category id (descriptions left out)
CATEGORIES ==
    "SYN_SCAN" :>
        [name |-> "TCP SYN Scan", category |-> "Port Scan", severity |-> "HIGH",
         auto_response |-> "block_ip_temporarily",
         detection_rules |->
             [tcp_flags |-> <<"SYN">>,
              connection_rate |-> "> 10/second",
              unique_ports |-> "> 5",
              confidence_threshold |-> <<80, 100>>]] @@
    "NULL_SCAN" :>
        [name |-> "TCP NULL Scan", category |-> "Port Scan", severity |-> "HIGH",
         auto_response |-> "block_ip_immediately",
         detection_rules |->
             [tcp_flags |-> <<"NULL">>,
              connection_rate |-> "> 5/second",
              confidence_threshold |-> <<90, 100>>]] @@
    "XMAS_SCAN" :>
        [name |-> "TCP XMAS Scan", category |-> "Port Scan", severity |-> "HIGH",
         auto_response |-> "block_ip_temporarily",
         detection_rules |->
             [tcp_flags |-> <<"FIN", "PSH", "URG">>,
              connection_rate |-> "> 5/second",
              confidence_threshold |-> <<85, 100>>]] @@
    "FIN_SCAN" :>
        [name |-> "TCP FIN Scan", category |-> "Port Scan", severity |-> "HIGH",
         auto_response |-> "block_ip_temporarily",
         detection_rules |->
             [tcp_flags |-> <<"FIN">>,
              connection_rate |-> "> 5/second",
              confidence_threshold |-> <<80, 100>>]] @@
    "UDP_SCAN" :>
        [name |-> "UDP Port Scan", category |-> "Port Scan", severity |-> "MEDIUM",
         auto_response |-> "monitor_and_alert",
         detection_rules |->
             [protocol |-> "UDP",
              connection_rate |-> "> 10/second",
              unique_ports |-> "> 10",
              confidence_threshold |-> <<70, 100>>]] @@
    "VERTICAL_SCAN" :>
        [name |-> "Vertical Port Scan", category |-> "Port Scan", severity |-> "HIGH",
         auto_response |-> "block_ip_temporarily",
         detection_rules |->
             [unique_ports |-> "> 20",
              single_target |-> TRUE,
              time_window |-> "< 60 seconds",
              confidence_threshold |-> <<75, 100>>]] @@
    "HORIZONTAL_SCAN" :>
        [name |-> "Horizontal Port Scan", category |-> "Port Scan", severity |-> "CRITICAL",
         auto_response |-> "block_ip_immediately",
         detection_rules |->
             [single_port |-> TRUE,
              unique_targets |-> "> 10",
              time_window |-> "< 60 seconds",
              confidence_threshold |-> <<80, 100>>]] @@
    "SYN_FLOOD" :>
        [name |-> "SYN Flood Attack", category |-> "Denial of Service", severity |-> "CRITICAL",
         auto_response |-> "block_ip_immediately",
         detection_rules |->
             [tcp_flags |-> <<"SYN">>,
              connection_rate |-> "> 100/second",
              no_ack_response |-> TRUE,
              confidence_threshold |-> <<90, 100>>]] @@
    "UDP_FLOOD" :>
        [name |-> "UDP Flood Attack", category |-> "Denial of Service", severity |-> "CRITICAL",
         auto_response |-> "block_ip_immediately",
         detection_rules |->
             [protocol |-> "UDP",
              packet_rate |-> "> 1000/second",
              confidence_threshold |-> <<85, 100>>]] @@
    "ICMP_FLOOD" :>
        [name |-> "ICMP Flood Attack", category |-> "Denial of Service", severity |-> "HIGH",
         auto_response |-> "block_ip_temporarily",
         detection_rules |->
             [protocol |-> "ICMP",
              packet_rate |-> "> 100/second",
              confidence_threshold |-> <<80, 100>>]] @@
    "HTTP_FLOOD" :>
        [name |-> "HTTP Flood Attack", category |-> "Denial of Service", severity |-> "HIGH",
         auto_response |-> "rate_limit_requests",
         detection_rules |->
             [protocol |-> "TCP",
              dst_port |-> [list |-> TRUE, v |-> <<80, 443, 8080>>],
              request_rate |-> "> 50/second",
              confidence_threshold |-> <<80, 100>>]] @@
    "SSH_BRUTE_FORCE" :>
        [name |-> "SSH Brute Force", category |-> "Brute Force", severity |-> "HIGH",
         auto_response |-> "block_ip_after_threshold",
         detection_rules |->
             [dst_port |-> [list |-> FALSE, v |-> 22],
              protocol |-> "TCP",
              connection_rate |-> "> 5/second",
              failed_attempts |-> "> 10",
              confidence_threshold |-> <<85, 100>>]] @@
    "FTP_BRUTE_FORCE" :>
        [name |-> "FTP Brute Force", category |-> "Brute Force", severity |-> "HIGH",
         auto_response |-> "block_ip_after_threshold",
         detection_rules |->
             [dst_port |-> [list |-> FALSE, v |-> 21],
              protocol |-> "TCP",
              connection_rate |-> "> 10/second",
              failed_attempts |-> "> 15",
              confidence_threshold |-> <<80, 100>>]] @@
    "RDP_BRUTE_FORCE" :>
        [name |-> "RDP Brute Force", category |-> "Brute Force", severity |-> "CRITICAL",
         auto_response |-> "block_ip_immediately",
         detection_rules |->
             [dst_port |-> [list |-> FALSE, v |-> 3389],
              protocol |-> "TCP",
              connection_rate |-> "> 3/second",
              failed_attempts |-> "> 5",
              confidence_threshold |-> <<90, 100>>]] @@
    "WEB_BRUTE_FORCE" :>
        [name |-> "Web Application Brute Force", category |-> "Brute Force", severity |-> "MEDIUM",
         auto_response |-> "rate_limit_and_alert",
         detection_rules |->
             [dst_port |-> [list |-> TRUE, v |-> <<80, 443, 8080>>],
              protocol |-> "TCP",
              http_methods |-> <<"POST">>,
              login_attempts |-> "> 20",
              confidence_threshold |-> <<75, 100>>]] @@
    "C2_COMMUNICATION" :>
        [name |-> "Command & Control Communication", category |-> "Malware Communication", severity |-> "CRITICAL",
         auto_response |-> "block_domain_and_ip",
         detection_rules |->
             [suspicious_domains |-> TRUE,
              periodic_connections |-> TRUE,
              encrypted_traffic |-> TRUE,
              confidence_threshold |-> <<80, 100>>]] @@
    "BOTNET_ACTIVITY" :>
        [name |-> "Botnet Activity", category |-> "Malware Communication", severity |-> "CRITICAL",
         auto_response |-> "quarantine_system",
         detection_rules |->
             [multiple_outbound_connections |-> TRUE,
              similar_patterns |-> TRUE,
              high_connection_rate |-> TRUE,
              confidence_threshold |-> <<85, 100>>]] @@
    "RANSOMWARE" :>
        [name |-> "Ransomware Activity", category |-> "Malware Communication", severity |-> "CRITICAL",
         auto_response |-> "isolate_system_immediately",
         detection_rules |->
             [file_encryption_patterns |-> TRUE,
              ransom_notes |-> TRUE,
              payment_requests |-> TRUE,
              confidence_threshold |-> <<95, 100>>]] @@
    "DNS_ENUMERATION" :>
        [name |-> "DNS Enumeration", category |-> "Reconnaissance", severity |-> "MEDIUM",
         auto_response |-> "monitor_and_log",
         detection_rules |->
             [dns_queries |-> "> 100/second",
              subdomain_bruteforce |-> TRUE,
              zone_transfers |-> TRUE,
              confidence_threshold |-> <<70, 100>>]] @@
    "NETWORK_DISCOVERY" :>
        [name |-> "Network Discovery", category |-> "Reconnaissance", severity |-> "LOW",
         auto_response |-> "monitor_and_log",
         detection_rules |->
             [arp_scanning |-> TRUE,
              ping_sweeps |-> TRUE,
              service_fingerprinting |-> TRUE,
              confidence_threshold |-> <<60, 100>>]] @@
    "OS_FINGERPRINTING" :>
        [name |-> "OS Fingerprinting", category |-> "Reconnaissance", severity |-> "LOW",
         auto_response |-> "monitor_and_log",
         detection_rules |->
             [ttl_analysis |-> TRUE,
              window_size_analysis |-> TRUE,
              tcp_options_analysis |-> TRUE,
              confidence_threshold |-> <<65, 100>>]]

\* AttackSubcategory.get_subcategory_info / get_detection_rules
KnownRule(subcat_id) == subcat_id \in DOMAIN CATEGORIES
get_subcategory_info(subcat_id) == CATEGORIES[subcat_id]
get_detection_rules(subcat_id) == CATEGORIES[subcat_id].detection_rules

\* AutomaticDetector.__init__
InitMatcher ==
    /\ enabled_attacks = {}
    /\ detection_rules = <<>>
    /\ response_actions = <<>>
    /\ auto_result = [kind |-> "none"]

\* d[k] = v
SetKey(d, k, v) == [x \in DOMAIN d \cup {k} |-> IF x = k THEN v ELSE d[x]]
\* d.pop(k, None)
PopKey(d, k) == [x \in DOMAIN d \ {k} |-> d[x]]
RECURSIVE PopKeys(_, _)
PopKeys(d, ks) ==
    IF ks = {} THEN d
    ELSE LET k == CHOOSE x \in ks : TRUE IN PopKeys(PopKey(d, k), ks \ {k})

\* the three containers of the AutomaticDetector
Registry ==
    [enabled_attacks |-> enabled_attacks, detection_rules |-> detection_rules,
     response_actions |-> response_actions]

\* enable_attack_detection adding every id to enabled_attacks, known or not
EnabledUnchecked(reg, subcategory_ids) ==
    LET valid == {i \in subcategory_ids : KnownRule(i)}
    IN  [enabled_attacks |-> reg.enabled_attacks \cup subcategory_ids,
         detection_rules |->
             [i \in DOMAIN reg.detection_rules \cup valid |->
                 IF i \in valid THEN get_detection_rules(i)
                 ELSE reg.detection_rules[i]],
         response_actions |->
             [i \in DOMAIN reg.response_actions \cup valid |->
                 IF i \in valid THEN get_subcategory_info(i).auto_response
                 ELSE reg.response_actions[i]]]

\* lines 344-353: the containers after enabling subcategory_ids (a set here);
\* an id the registry does not know has no rules and no info and is skipped
Enabled(reg, subcategory_ids) ==
    LET valid == {i \in subcategory_ids : KnownRule(i)}
    IN  [enabled_attacks |-> reg.enabled_attacks \cup valid,
         detection_rules |->
             [i \in DOMAIN reg.detection_rules \cup valid |->
                 IF i \in valid THEN get_detection_rules(i)
                 ELSE reg.detection_rules[i]],
         response_actions |->
             [i \in DOMAIN reg.response_actions \cup valid |->
                 IF i \in valid THEN get_subcategory_info(i).auto_response
                 ELSE reg.response_actions[i]]]

\* lines 355-360: the containers after disabling subcategory_ids
Disabled(reg, subcategory_ids) ==
    [enabled_attacks |-> reg.enabled_attacks \ subcategory_ids,
     detection_rules |-> PopKeys(reg.detection_rules, subcategory_ids),
     response_actions |-> PopKeys(reg.response_actions, subcategory_ids)]

\* AutomaticDetector.enable_attack_detection
enable_attack_detection(subcategory_ids) ==
    LET reg == Enabled(Registry, subcategory_ids)
    IN  /\ enabled_attacks' = reg.enabled_attacks
        /\ detection_rules' = reg.detection_rules
        /\ response_actions' = reg.response_actions
        /\ auto_result' = [kind |-> "enabled"]

\* AutomaticDetector.disable_attack_detection
disable_attack_detection(subcategory_ids) ==
    LET reg == Disabled(Registry, subcategory_ids)
    IN  /\ enabled_attacks' = reg.enabled_attacks
        /\ detection_rules' = reg.detection_rules
        /\ response_actions' = reg.response_actions
        /\ auto_result' = [kind |-> "disabled"]

rule_flag_map ==
    [SYN |-> 2, ACK |-> 16, FIN |-> 1, RST |-> 4, PSH |-> 8, URG |-> 32,
     ECE |-> 64, CWR |-> 128, NULL |-> 0]

\* flags & bit, for a one-bit or zero mask
BitAnd(flags, mask) == IF mask = 0 THEN 0 ELSE IF HasBit(flags, mask) THEN mask ELSE 0

\* AutomaticDetector._check_tcp_flags
_check_tcp_flags(packet_flags, required_flags) ==
    IF Len(required_flags) = 1 /\ required_flags[1] \in DOMAIN rule_flag_map
    THEN packet_flags = rule_flag_map[required_flags[1]]
    ELSE \A i \in 1..Len(required_flags) :
             required_flags[i] \in DOMAIN rule_flag_map =>
                 BitAnd(packet_flags, rule_flag_map[required_flags[i]]) # 0

\* AutomaticDetector._check_connection_rate
_check_connection_rate(packet_data, rate_rule) ==
    Contains(rate_rule, ">") \/ Contains(str_lower(rate_rule), "high")

\* the weight of the flags check raised to 0.6
WeightFlagsHeavy == <<60, 100>>

WeightFlags == <<30, 100>>
WeightRate == <<25, 100>>
WeightProtocol == <<20, 100>>
WeightPort == <<15, 100>>
WeightUniquePorts == <<10, 100>>

\* lines 385-424: the names of the checks that matched, in order
MatchedRules(packet_data, rules) ==
    (IF "tcp_flags" \in DOMAIN rules
        /\ _check_tcp_flags(packet_data.flags, rules.tcp_flags)
     THEN <<"tcp_flags">> ELSE <<>>)
    \o (IF "connection_rate" \in DOMAIN rules
           /\ _check_connection_rate(packet_data, rules.connection_rate)
        THEN <<"connection_rate">> ELSE <<>>)
    \o (IF "protocol" \in DOMAIN rules
           /\ str_upper(packet_data.protocol) = str_upper(rules.protocol)
        THEN <<"protocol">> ELSE <<>>)
    \o (IF "dst_port" \in DOMAIN rules
           /\ (IF rules.dst_port.list
               THEN \E i \in 1..Len(rules.dst_port.v) :
                        rules.dst_port.v[i] = packet_data.dst_port
               ELSE packet_data.dst_port = rules.dst_port.v)
        THEN <<"dst_port">> ELSE <<>>)
    \o (IF "unique_ports" \in DOMAIN rules
        THEN <<"unique_ports_pattern">> ELSE <<>>)

RuleWeight(matched) ==
    CASE matched = "tcp_flags" -> WeightFlags
      [] matched = "connection_rate" -> WeightRate
      [] matched = "protocol" -> WeightProtocol
      [] matched = "dst_port" -> WeightPort
      [] matched = "unique_ports_pattern" -> WeightUniquePorts

RECURSIVE SumWeights(_)
SumWeights(matched_rules) ==
    IF Len(matched_rules) = 0 THEN Zero
    ELSE RAdd(SumWeights(SubSeq(matched_rules, 1, Len(matched_rules) - 1)),
              RuleWeight(Last(matched_rules)))

NoDetection == [attack_type |-> NoneStr]

\* the check of line 429 passing below the rule's threshold
CheckAttackRulesLowBar(rules_of, actions_of, packet_data, attack_type) ==
    LET rules == rules_of[attack_type]
        info == get_subcategory_info(attack_type)
        matched_rules == MatchedRules(packet_data, rules)
        confidence == SumWeights(matched_rules)
        threshold == <<50, 100>>
    IN  IF RLe(threshold, confidence)
        THEN [attack_type   |-> attack_type,
              attack_name   |-> info.name,
              category      |-> info.category,
              confidence    |-> confidence,
              severity      |-> info.severity,
              matched_rules |-> matched_rules,
              auto_response |-> IF attack_type \in DOMAIN actions_of
                                THEN actions_of[attack_type] ELSE NoneStr]
        ELSE NoDetection

\* AutomaticDetector._check_attack_rules; every id of the registry has an
\* info record, and every rule of the registry declares confidence_threshold
_check_attack_rules(rules_of, actions_of, packet_data, attack_type) ==
    LET rules == rules_of[attack_type]
        info == get_subcategory_info(attack_type)
        matched_rules == MatchedRules(packet_data, rules)
        confidence == SumWeights(matched_rules)
        threshold == rules.confidence_threshold
    IN  IF RLe(threshold, confidence)
        THEN [attack_type   |-> attack_type,
              attack_name   |-> info.name,
              category      |-> info.category,
              confidence    |-> confidence,
              severity      |-> info.severity,
              matched_rules |-> matched_rules,
              auto_response |-> IF attack_type \in DOMAIN actions_of
                                THEN actions_of[attack_type] ELSE NoneStr]
        ELSE NoDetection

\* AutomaticDetector.analyze_packet
auto_analyze_packet(packet_data) ==
    /\ auto_result' =
          [kind       |-> "detections",
           packet     |-> packet_data,
           detections |->
               {_check_attack_rules(detection_rules, response_actions,
                                    packet_data, a) :
                    a \in enabled_attacks \cap DOMAIN detection_rules}
               \ {NoDetection}]
    /\ UNCHANGED <<enabled_attacks, detection_rules, response_actions>>

-----------------------------------------------------------------------------
(* The alert rate limiter of src/app.py *)

DefaultRateLimit == 5
MinRateLimit == 1
MaxRateLimit == 60
NoTime == -1

\* module level, lines 541-542
InitDedup ==
    /\ threat_rate_limiter = <<>>
    /\ THREAT_RATE_LIMIT_SECONDS = DefaultRateLimit
    /\ clock = 0
    /\ emitted = <<>>
    /\ dedup_result = [kind |-> "none"]

\* line 589
RateKey(attack_type, srcip) == attack_type \o "_" \o srcip

TimeOf(d, k) == IF k \in DOMAIN d THEN d[k] ELSE NoTime

\* lines 602-605 dropping an entry only at three times the limit
PurgeOldLate(limiter, current_time, limit) ==
    [k \in {x \in DOMAIN limiter : ~(current_time - limiter[x] > limit * 3)} |->
        limiter[k]]

\* lines 602-605: drop the entries older than twice the limit
PurgeOld(limiter, current_time, limit) ==
    [k \in {x \in DOMAIN limiter : ~(current_time - limiter[x] > limit * 2)} |->
        limiter[k]]

\* the test of line 594 letting a detection through at half the limit
RateLimitedHalf(limiter, rate_key, current_time, limit) ==
    /\ rate_key \in DOMAIN limiter
    /\ 2 * (current_time - limiter[rate_key]) < limit

\* lines 593-594
RateLimited(limiter, rate_key, current_time, limit) ==
    /\ rate_key \in DOMAIN limiter
    /\ current_time - limiter[rate_key] < limit

\* add_threat_detection(packet_data, result), result a threat or not
add_threat_detection(packet_data, result) ==
    LET rate_key == RateKey(result.attack_type, packet_data.srcip)
        current_time == clock
        call == [kind |-> "detection", threat |-> result.threat_detected,
                 rate_key |-> rate_key, at |-> current_time,
                 recorded |-> TimeOf(threat_rate_limiter, rate_key),
                 previous |-> IF rate_key \in DOMAIN emitted THEN emitted[rate_key]
                              ELSE [at |-> NoTime, cleared |-> FALSE]]
    IN  IF ~result.threat_detected
        THEN /\ dedup_result' = [call EXCEPT !.rate_key = NoneStr] @@ [returned |-> FALSE]
             /\ UNCHANGED <<threat_rate_limiter, emitted>>
        ELSE IF RateLimited(threat_rate_limiter, rate_key, current_time,
                            THREAT_RATE_LIMIT_SECONDS)
        THEN /\ dedup_result' = call @@ [returned |-> FALSE]
             /\ UNCHANGED <<threat_rate_limiter, emitted>>
        ELSE /\ threat_rate_limiter' =
                    PurgeOld(SetKey(threat_rate_limiter, rate_key, current_time),
                             current_time, THREAT_RATE_LIMIT_SECONDS)
             /\ emitted' = SetKey(emitted, rate_key,
                                  [at |-> current_time, cleared |-> FALSE])
             /\ dedup_result' = call @@ [returned |-> TRUE]

\* api_rate_limit, POST with an integer 'seconds'
api_rate_limit(new_limit) ==
    IF MinRateLimit <= new_limit /\ new_limit <= MaxRateLimit
    THEN /\ THREAT_RATE_LIMIT_SECONDS' = new_limit
         /\ threat_rate_limiter' = <<>>
         /\ emitted' = [k \in DOMAIN emitted |-> [emitted[k] EXCEPT !.cleared = TRUE]]
         /\ dedup_result' = [kind |-> "rate_limit", success |-> TRUE]
    ELSE /\ dedup_result' = [kind |-> "rate_limit", success |-> FALSE]
         /\ UNCHANGED <<THREAT_RATE_LIMIT_SECONDS, threat_rate_limiter, emitted>>

-----------------------------------------------------------------------------
(* Inputs *)

IntFlags(m) == [str |-> FALSE, v |-> m]
StrFlags(l) == [str |-> TRUE, v |-> l]

\* What the classifier may do on a call
ClfNoModel == [kind |-> "no_model"]
ClfRaises == [kind |-> "raises"]
ClfOk(idx, label, conf) ==
    [kind |-> "ok", idx |-> idx, pred_class |-> label, confidence |-> conf]

Classifiers ==
    {ClfNoModel, ClfRaises,
     ClfOk(0, "Normal", <<95, 100>>),
     ClfOk(1, "DoS", <<30, 100>>),
     ClfOk(1, "DoS", <<29, 100>>),
     ClfOk(3, NoneStr, <<90, 100>>)}

\* Spec: any source, any of a few packet shapes, timestamps in any order
Shapes ==
    {[dst_port |-> 80, protocol |-> "tcp", flags |-> IntFlags(2)],
     [dst_port |-> 53, protocol |-> "UDP", flags |-> IntFlags(0)]}
Times == {0, 1, 61}
SpecClassifiers == {ClfOk(0, NoneStr, <<90, 100>>), ClfOk(1, "DoS", <<50, 100>>)}

RECURSIVE SumLen(_, _)
SumLen(h, S) ==
    IF S = {} THEN 0
    ELSE LET s == CHOOSE x \in S : TRUE
         IN  Len(h[s]) + SumLen(h, S \ {s})

TotalObs == SumLen(hist, Sources)

-----------------------------------------------------------------------------
(* ModelServer (src/model_server.py)                                         *)
(*                                                                           *)
(* A connection holds the bytes the client has written and the server has    *)
(* not read yet (wire), and the handler's data_chunks as the joined text and *)
(* the number of chunks: the code only joins the list and takes its length.  *)

\* retrain_interval and retrain_batch are constructor parameters (defaults 300
\* and 50); the server of the model is built with retrain_batch samples a batch
retrain_interval == 300
retrain_batch == 2
\* line 93: a buffer of more than MaxChunks reads that does not decode is dropped
MaxChunks == 10

Conns == {1, 2}

DecodeError ==
    [type |-> "JSONDecodeError", command |-> NoneStr, label |-> FALSE,
     srcip |-> NoneStr]
JsonInt == [type |-> "int", command |-> NoneStr, label |-> FALSE, srcip |-> NoneStr]

Obj(command, label) ==
    [type |-> "dict", command |-> command, label |-> label, srcip |-> "10.0.0.1"]

\* The request texts of the model and the JSON document each one stands for:
\*   {Cp}  {"command": "ping", <packet fields>}
\*   {Cs}  {"command": "get_port_scan_stats", "srcip": "10.0.0.1"}
\*   {Cu}  {"command": "get_port_scan_stats", "srcip": "10.0.0.9"}
\*   {Cg}  {"command": "get_port_scan_stats"}
\*   {Cx}  {"command": "reboot"}
\*   {Ce}  {"command": "", <packet fields>}
\*   {CpL} {"command": "ping", "label": "DoS", <packet fields>}
\*   {CeL} {"command": "", "label": "DoS", <packet fields>}
\*   {L}   {"label": "DoS", <packet fields>}
\*   {P}   {<packet fields>}
\*   []    []
Documents ==
    "{Cp}"  :> Obj("ping", FALSE) @@
    "{Cs}"  :> Obj("get_port_scan_stats", FALSE) @@
    "{Cu}"  :> [Obj("get_port_scan_stats", FALSE) EXCEPT !.srcip = "10.0.0.9"] @@
    "{Cg}"  :> [Obj("get_port_scan_stats", FALSE) EXCEPT !.srcip = NoneStr] @@
    "{Cx}"  :> Obj("reboot", FALSE) @@
    "{Ce}"  :> Obj("", FALSE) @@
    "{CpL}" :> Obj("ping", TRUE) @@
    "{CeL}" :> Obj("", TRUE) @@
    "{L}"   :> Obj(NoneStr, TRUE) @@
    "{P}"   :> Obj(NoneStr, FALSE) @@
    "[]"    :> [type |-> "list", command |-> NoneStr, label |-> FALSE,
                srcip |-> NoneStr]

\* the packet fields of every object of Documents
ServerPacket ==
    [srcip |-> "10.0.0.1", dst_port |-> 80, protocol |-> "tcp",
     flags |-> [str |-> FALSE, v |-> 2], timestamp |-> 0]

DigitChars == {"0", "1", "2", "3", "4", "5", "6", "7", "8", "9"}

IsNumber(text) ==
    /\ Len(text) > 0
    /\ \A i \in 1..Len(text) : CharAt(text, i) \in DigitChars
    /\ Len(text) > 1 => CharAt(text, 1) # "0"

\* json.loads: one whole document decodes, anything else (a fragment, two
\* documents one after the other, other bytes) raises JSONDecodeError
json_loads(text) ==
    IF text \in DOMAIN Documents THEN Documents[text]
    ELSE IF IsNumber(text) THEN JsonInt
    ELSE DecodeError

\* bool(value) of a command value
Truthy(command) == command \notin {NoneStr, ""}

NoAnswer ==
    [payload |-> DecodeError, handler |-> "none", response |-> [kind |-> "none"],
     raised |-> FALSE, id |-> 0]

Answer(payload, handler, resp) ==
    [payload |-> payload, handler |-> handler, response |-> resp,
     raised |-> FALSE, id |-> 0]

\* ip_tracking[srcip] of a defaultdict: a key that is missing is inserted
\* with the default entry
Index(tracking, srcip) ==
    [tracking |-> IF srcip \in DOMAIN tracking THEN tracking
                  ELSE SetKey(tracking, srcip, NewIpData),
     ip_data  |-> IpData(tracking, srcip)]

SourceStatistics(srcip, ip_data) ==
    [kind |-> "statistics", ip |-> srcip,
     unique_ports |-> Cardinality(ip_data.ports),
     total_connections |-> Len(ip_data.timestamps)]

RECURSIVE TotalPorts(_)
TotalPorts(tracking) ==
    IF DOMAIN tracking = {} THEN 0
    ELSE LET s == CHOOSE x \in DOMAIN tracking : TRUE
         IN  Cardinality(tracking[s].ports) + TotalPorts(PopKey(tracking, s))

GlobalStatistics(tracking) ==
    [kind |-> "global",
     total_tracked_ips |-> Cardinality(DOMAIN tracking),
     active_scanners |->
         Cardinality({s \in DOMAIN tracking : VerticalTrigger(tracking[s])}),
     total_unique_ports_scanned |-> TotalPorts(tracking)]

\* get_statistics indexing ip_tracking without the membership test
GetStatisticsIndexFirst(tracking, srcip) ==
    IF srcip \notin {NoneStr, ""}
    THEN LET got == Index(tracking, srcip)
         IN  [tracking |-> got.tracking,
              response |-> SourceStatistics(srcip, got.ip_data)]
    ELSE [tracking |-> tracking, response |-> GlobalStatistics(tracking)]

\* PortScanDetector.get_statistics through CyberSentinelMod.get_statistics:
\* the tracking map after the call and the answer
get_statistics(tracking, srcip) ==
    IF srcip \notin {NoneStr, ""}
    THEN IF srcip \notin DOMAIN tracking
         THEN [tracking |-> tracking,
               response |-> [kind |-> "error", error |-> "IP not found in tracking"]]
         ELSE LET got == Index(tracking, srcip)
              IN  [tracking |-> got.tracking,
                   response |-> SourceStatistics(srcip, got.ip_data)]
    ELSE [tracking |-> tracking, response |-> GlobalStatistics(tracking)]

\* lines 136-144: the tracking map after the command and the answer
CommandResponse(payload) ==
    IF payload.command = "get_port_scan_stats"
    THEN get_statistics(ip_tracking, payload.srcip)
    ELSE IF payload.command = "ping"
    THEN [tracking |-> ip_tracking, response |-> [kind |-> "ok"]]
    ELSE [tracking |-> ip_tracking,
          response |-> [kind |-> "error", error |-> "Unknown command"]]

\* the classifier of the server's engine
ServerClassifiers == {ClfNoModel}

\* ModelServer._process_request.  A payload that is no container makes the
\* test of line 147 raise TypeError, which leaves the function; a payload that
\* is no dict makes analyze_packet raise, which line 157 catches.
_process_request(payload) ==
    IF payload.type = "dict" /\ Truthy(payload.command)
    THEN /\ srv_result' = Answer(payload, "command", CommandResponse(payload).response)
         /\ ip_tracking' = CommandResponse(payload).tracking
         /\ UNCHANGED <<update_buffer, fed, hist, request, response, trace>>
    ELSE IF payload.type = "int"
    THEN /\ srv_result' = [NoAnswer EXCEPT !.payload = payload, !.raised = TRUE,
                                           !.response = [kind |-> "error"]]
         /\ UNCHANGED <<update_buffer, fed, engine_vars>>
    ELSE IF payload.label
    THEN /\ update_buffer' = Append(update_buffer, [payload |-> payload, id |-> fed + 1])
         /\ fed' = fed + 1
         /\ srv_result' = [Answer(payload, "feedback", [kind |-> "queued"])
                               EXCEPT !.id = fed + 1]
         /\ UNCHANGED engine_vars
    ELSE IF payload.type = "dict"
    THEN /\ \E clf \in ServerClassifiers : analyze_packet(ServerPacket, clf)
         /\ srv_result' = Answer(payload, "analysis", [kind |-> "result"])
         /\ UNCHANGED <<update_buffer, fed, trace>>
    ELSE /\ srv_result' = Answer(payload, "analysis", [kind |-> "error"])
         /\ UNCHANGED <<update_buffer, fed, engine_vars>>

NewConn ==
    [state |-> "none", wire |-> "", joined |-> "", chunks |-> 0, eof |-> FALSE,
     sent |-> <<>>, replies |-> <<>>]

\* start, lines 64-69: the accept loop hands a new connection to a handler thread
accept(c) ==
    /\ process = "up"
    /\ ~_stop
    /\ conn[c].state = "none"
    /\ conn' = [conn EXCEPT ![c].state = "open"]

\* the bytes one sock.recv returns: some or all of what is in flight
RecvSizes(wire) == {1, Len(wire)}

\* _handle_client, one turn of the loop of lines 80-118
_handle_client(c) ==
    LET k == conn[c]
    IN  /\ process = "up"
        /\ k.state = "open"
        /\ IF k.wire = ""
           THEN /\ k.eof
                /\ conn' = [conn EXCEPT ![c].state = "closed"]
                /\ UNCHANGED <<update_buffer, fed, srv_result, engine_vars>>
           ELSE \E n \in RecvSizes(k.wire) :
                    LET data == SubSeq(k.wire, 1, n)
                        rest == SubSeq(k.wire, n + 1, Len(k.wire))
                        text == k.joined \o data
                        payload == json_loads(text)
                    IN  IF payload = DecodeError
                        THEN /\ conn' = [conn EXCEPT ![c] =
                                    [k EXCEPT !.wire = rest, !.joined = text,
                                              !.chunks = k.chunks + 1,
                                              !.state = IF k.chunks + 1 > MaxChunks
                                                        THEN "closed" ELSE "open"]]
                             /\ UNCHANGED <<update_buffer, fed, srv_result, engine_vars>>
                        ELSE /\ _process_request(payload)
                             /\ conn' = [conn EXCEPT ![c] =
                                    [k EXCEPT !.wire = rest, !.joined = "",
                                              !.chunks = 0,
                                              !.replies = Append(@,
                                                  [kind |-> srv_result'.response.kind,
                                                   req |-> text]),
                                              !.state = IF srv_result'.raised
                                                        THEN "closed" ELSE "open"]]

\* line 108: sock.recv saw no byte for ten seconds
recv_timeout(c) ==
    /\ process = "up"
    /\ conn[c].state = "open"
    /\ conn[c].wire = ""
    /\ ~conn[c].eof
    /\ conn' = [conn EXCEPT ![c].state = "closed"]

\* start, lines 70-74: KeyboardInterrupt ends the accept loop
keyboard_interrupt ==
    /\ process = "up"
    /\ ~_stop
    /\ _stop' = TRUE

\* start has returned and the interpreter exits: the daemon threads end with it
process_exit ==
    /\ process = "up"
    /\ _stop
    /\ process' = "exited"
    /\ retrainer' = IF retrainer = "sleeping" THEN "killed" ELSE retrainer

\* DrainLoop taking one sample too many
RECURSIVE DrainLoopOneMore(_, _)
DrainLoopOneMore(buffer, batch) ==
    IF Len(buffer) > 0 /\ Len(batch) <= retrain_batch
    THEN DrainLoopOneMore(Tail(buffer), Append(batch, Head(buffer)))
    ELSE [buffer |-> buffer, batch |-> batch]

\* DrainLoop with a batch that is full from the start
DrainLoopStalls(buffer, batch) ==
    IF Len(buffer) > 0 /\ Len(batch) < 0
    THEN [buffer |-> Tail(buffer), batch |-> Append(batch, Head(buffer))]
    ELSE [buffer |-> buffer, batch |-> batch]

\* lines 166-167: pop from the front while the batch is short
RECURSIVE DrainLoop(_, _)
DrainLoop(buffer, batch) ==
    IF Len(buffer) > 0 /\ Len(batch) < retrain_batch
    THEN DrainLoop(Tail(buffer), Append(batch, Head(buffer)))
    ELSE [buffer |-> buffer, batch |-> batch]

\* lines 176-183: what the write of a batch leaves behind.  Nothing when
\* makedirs or open fail, the first lines when a write fails, else the batch.
WriteOutcomes(batch) ==
    {[ok |-> TRUE, file |-> TRUE, lines |-> batch]} \cup
    {[ok |-> FALSE, file |-> FALSE, lines |-> <<>>]} \cup
    {[ok |-> FALSE, file |-> TRUE, lines |-> SubSeq(batch, 1, n)] :
         n \in 0..(Len(batch) - 1)}

\* _background_retrainer, one turn of the loop of lines 163-185, from the end
\* of time.sleep to the next test of _stop
_background_retrainer ==
    /\ process = "up"
    /\ retrainer = "sleeping"
    /\ drain_clock' = drain_clock + retrain_interval
    /\ LET d == DrainLoop(update_buffer, <<>>)
       IN  /\ update_buffer' = d.buffer
           /\ IF d.batch = <<>>
              THEN /\ updates' = updates
                   /\ drain_result' = [kind |-> "idle", before |-> update_buffer,
                                       batch |-> d.batch, ok |-> TRUE,
                                       path |-> drain_clock']
              ELSE \E w \in WriteOutcomes(d.batch) :
                       /\ updates' = IF w.file
                                     THEN SetKey(updates, drain_clock', w.lines)
                                     ELSE updates
                       /\ drain_result' = [kind |-> "batch", before |-> update_buffer,
                                           batch |-> d.batch, ok |-> w.ok,
                                           path |-> drain_clock']
    /\ retrainer' = IF _stop THEN "stopped" ELSE "sleeping"

InitServer ==
    /\ _stop = FALSE
    /\ process = "up"
    /\ conn = [c \in Conns |-> NewConn]
    /\ update_buffer = <<>>
    /\ fed = 0
    /\ updates = <<>>
    /\ drain_clock = 0
    /\ retrainer = "sleeping"
    /\ srv_result = NoAnswer
    /\ drain_result = [kind |-> "none", before |-> <<>>, batch |-> <<>>, ok |-> TRUE,
                       path |-> 0]


-----------------------------------------------------------------------------
(* Worker threads.  The server starts one handler thread per connection     *)
(* (model_server.py, lines 64-69); the capture thread calls the threat      *)
(* callback (packet_capture.py, lines 370-374) while the request threads of *)
(* the Flask app call it too (app.py, line 271).  None of them takes a lock *)
(* around ip_tracking or threat_rate_limiter, so the statements of two      *)
(* calls interleave.  A step of a worker is one statement of the method.    *)
Workers == {1, 2}

IdleScan ==
    [pc |-> "idle", packet |-> NoRequest, features |-> NoRequest,
     result |-> [kind |-> "none"]]

\* detect_port_scan, lines 165-171: the features and the entry of the source
scan_begin(w, packet) ==
    LET features == extract_port_scan_features(packet)
    IN  /\ scan_worker[w].pc = "idle"
        /\ scan_worker' = [scan_worker EXCEPT ![w] =
               [pc |-> "ports", packet |-> packet, features |-> features,
                result |-> [kind |-> "none"]]]
        /\ ip_tracking' = [s \in DOMAIN ip_tracking \cup {features.srcip} |->
                               IpData(ip_tracking, s)]

\* detect_port_scan, lines 172-175: one of the four updates of the entry
scan_record(w) ==
    LET f == scan_worker[w].features
        pc == scan_worker[w].pc
    IN  /\ pc \in {"ports", "timestamps", "flags", "protocols"}
        /\ ip_tracking' = [ip_tracking EXCEPT ![f.srcip] =
               IF pc = "ports" THEN [@ EXCEPT !.ports = @ \cup {f.dst_port}]
               ELSE IF pc = "timestamps"
                    THEN [@ EXCEPT !.timestamps = Append(@, f.timestamp)]
               ELSE IF pc = "flags" THEN [@ EXCEPT !.flags = Append(@, f.flags)]
               ELSE [@ EXCEPT !.protocols = Append(@, f.protocol)]]
        /\ scan_worker' = [scan_worker EXCEPT ![w].pc =
               IF pc = "ports" THEN "timestamps"
               ELSE IF pc = "timestamps" THEN "flags"
               ELSE IF pc = "flags" THEN "protocols"
               ELSE "clean"]

\* _clean_old_entries, lines 347-352: the test of the loop or one of its pops;
\* popleft on a deque another thread has emptied raises IndexError
scan_clean(w) ==
    LET f == scan_worker[w].features
        pc == scan_worker[w].pc
        d == ip_tracking[f.srcip]
        cutoff_time == f.timestamp - window_size
    IN  /\ pc \in {"clean", "pop_timestamps", "pop_flags", "pop_protocols"}
        /\ IF pc = "clean"
           THEN /\ scan_worker' = [scan_worker EXCEPT ![w].pc =
                       IF Len(d.timestamps) > 0 /\ d.timestamps[1] < cutoff_time
                       THEN "pop_timestamps" ELSE "evaluate"]
                /\ UNCHANGED ip_tracking
           ELSE IF pc = "pop_timestamps"
           THEN IF Len(d.timestamps) = 0
                THEN /\ scan_worker' = [scan_worker EXCEPT ![w].pc = "done",
                            ![w].result = [kind |-> "IndexError"]]
                     /\ UNCHANGED ip_tracking
                ELSE /\ ip_tracking' = [ip_tracking EXCEPT
                            ![f.srcip].timestamps = Tail(@)]
                     /\ scan_worker' = [scan_worker EXCEPT ![w].pc = "pop_flags"]
           ELSE IF pc = "pop_flags"
           THEN /\ ip_tracking' = [ip_tracking EXCEPT ![f.srcip].flags = PopLeft(@)]
                /\ scan_worker' = [scan_worker EXCEPT ![w].pc = "pop_protocols"]
           ELSE /\ ip_tracking' = [ip_tracking EXCEPT ![f.srcip].protocols = PopLeft(@)]
                /\ scan_worker' = [scan_worker EXCEPT ![w].pc = "clean"]

\* detect_port_scan, lines 180-278: the metrics and the signatures
scan_evaluate(w) ==
    LET f == scan_worker[w].features
    IN  /\ scan_worker[w].pc = "evaluate"
        /\ scan_worker' = [scan_worker EXCEPT ![w].pc = "done",
               ![w].result = [kind |-> "result",
                              result |-> EvaluateSignatures(ip_tracking[f.srcip], f)]]
        /\ UNCHANGED ip_tracking

IdleDedup ==
    [pc |-> "idle", rate_key |-> NoneStr, current_time |-> NoTime, overlap |-> {}]

InCall(w) == dedup_worker[w].pc \in {"check", "update", "purge"}

\* add_threat_detection on a threat, lines 589-590
dedup_begin(w, packet_data, result) ==
    /\ dedup_worker[w].pc = "idle"
    /\ dedup_worker' = [x \in Workers |->
           IF x = w
           THEN [pc |-> "check",
                 rate_key |-> RateKey(result.attack_type, packet_data.srcip),
                 current_time |-> clock,
                 overlap |-> {y \in Workers \ {w} : InCall(y)}]
           ELSE IF InCall(x)
                THEN [dedup_worker[x] EXCEPT !.overlap = @ \cup {w}]
                ELSE dedup_worker[x]]
    /\ UNCHANGED threat_rate_limiter

\* add_threat_detection, lines 593-605, one statement at a time: the test,
\* the update of the map, the purge
dedup_step(w) ==
    LET k == dedup_worker[w]
    IN  /\ InCall(w)
        /\ IF k.pc = "check"
           THEN /\ dedup_worker' = [dedup_worker EXCEPT ![w].pc =
                       IF RateLimited(threat_rate_limiter, k.rate_key, k.current_time,
                                      THREAT_RATE_LIMIT_SECONDS)
                       THEN "suppressed" ELSE "update"]
                /\ UNCHANGED threat_rate_limiter
           ELSE IF k.pc = "update"
           THEN /\ threat_rate_limiter' =
                       SetKey(threat_rate_limiter, k.rate_key, k.current_time)
                /\ dedup_worker' = [dedup_worker EXCEPT ![w].pc = "purge"]
           ELSE /\ threat_rate_limiter' =
                       PurgeOld(threat_rate_limiter, k.current_time,
                                THREAT_RATE_LIMIT_SECONDS)
                /\ dedup_worker' = [dedup_worker EXCEPT ![w].pc = "emitted"]

\* list.pop() in the place of list.pop(0)
PopBack(buffer) ==
    [item |-> buffer[Len(buffer)], rest |-> SubSeq(buffer, 1, Len(buffer) - 1)]

\* line 167: update_buffer.pop(0)
PopFront(buffer) == [item |-> Head(buffer), rest |-> Tail(buffer)]

InitRace ==
    /\ scan_worker = [w \in Workers |-> IdleScan]
    /\ dedup_worker = [w \in Workers |-> IdleDedup]
    /\ update_lock = "free"
    /\ feed_worker = [w \in Workers |-> "idle"]
    /\ drained = <<>>


Init ==
    /\ ip_tracking = <<>>
    /\ hist = [s \in Sources |-> <<>>]
    /\ request = NoRequest
    /\ response = [kind |-> "none"]
    /\ trace = <<>>
    /\ InitMatcher
    /\ InitDedup
    /\ InitServer
    /\ InitRace

Observe ==
    \E s \in Sources, sh \in Shapes, ts \in Times, clf \in SpecClassifiers :
        /\ TotalObs < MaxObs
        /\ analyze_packet([srcip |-> s, dst_port |-> sh.dst_port,
                           protocol |-> sh.protocol, flags |-> sh.flags,
                           timestamp |-> ts], clf)
        /\ UNCHANGED <<server_vars, race_vars, trace, matcher_vars, dedup_vars>>

Next == Observe

Spec == Init /\ [][Next]_vars

\* SpecBurst: one host per behaviour sends bursts of packets that share a
\* timestamp, to the next unused port of PortPool or again to its first port
BurstSize == 13
Gaps == {1, 4}
PortPool == <<21, 25, 53, 80, 110, 143, 443, 993, 3306, 5432, 8080>>

BurstFlags(s) == IF s = "10.0.0.1" THEN IntFlags(16) ELSE IntFlags(2)

BurstTimes(s) ==
    LET h == hist[s]
    IN  IF Len(h) = 0 THEN {0}
        ELSE LET t == h[Len(h)].timestamp
                 c == Cardinality({i \in 1..Len(h) : h[i].timestamp = t})
             IN  IF c < BurstSize THEN {t} ELSE {t + g : g \in Gaps}

BurstPorts(s) ==
    LET k == Cardinality(IpData(ip_tracking, s).ports)
    IN  {PortPool[1]} \cup (IF k < Len(PortPool) THEN {PortPool[k + 1]} ELSE {})

BurstObserve ==
    \E s \in Sources, clf \in Classifiers :
        /\ TotalObs < MaxBurstObs
        /\ \A o \in Sources \ {s} : hist[o] = <<>>
        /\ \E ts \in BurstTimes(s), p \in BurstPorts(s) :
              analyze_packet([srcip |-> s, dst_port |-> p, protocol |-> "tcp",
                              flags |-> BurstFlags(s), timestamp |-> ts], clf)
        /\ UNCHANGED <<server_vars, race_vars, trace, matcher_vars, dedup_vars>>

NextBurst == BurstObserve

SpecBurst == Init /\ [][NextBurst]_vars

\* SpecSig: one host sends up to MaxSigObs packets, every packet to a port it
\* has not used before.  A packet is of one of SigKinds (flags, protocol and
\* the port range it walks through); the packets of a behaviour come grouped
\* by kind, and at a fixed pace of one packet every SigGaps seconds.
SigSource == "10.0.0.1"
SigGaps == {0, 5}
SigKinds ==
    <<[protocol |-> "tcp", flags |-> IntFlags(2),  base |-> 2000, step |-> 10],
      [protocol |-> "tcp", flags |-> IntFlags(1),  base |-> 3000, step |-> 10],
      [protocol |-> "udp", flags |-> IntFlags(0),  base |-> 4000, step |-> 10],
      [protocol |-> "tcp", flags |-> IntFlags(16), base |-> 0,    step |-> 10],
      [protocol |-> "tcp", flags |-> IntFlags(16), base |-> 500,  step |-> 1]>>
SigRange == 400

KindOf(packet) ==
    CHOOSE k \in 1..Len(SigKinds) :
        /\ packet.dst_port > SigKinds[k].base
        /\ packet.dst_port < SigKinds[k].base + SigRange

SigTimes ==
    IF Len(trace) = 0 THEN {0}
    ELSE IF Len(trace) = 1 THEN {g : g \in SigGaps}
    ELSE {Last(trace).timestamp + (trace[2].timestamp - trace[1].timestamp)}

SigPackets ==
    LET from == IF Len(trace) = 0 THEN 1 ELSE KindOf(Last(trace))
    IN  {[srcip     |-> SigSource,
          dst_port  |-> SigKinds[k].base + SigKinds[k].step *
                            (1 + Cardinality({i \in 1..Len(trace) : KindOf(trace[i]) = k})),
          protocol  |-> SigKinds[k].protocol,
          flags     |-> SigKinds[k].flags,
          timestamp |-> ts] : k \in from..Len(SigKinds), ts \in SigTimes}

SigObserve ==
    \E packet \in SigPackets :
        /\ Len(trace) < MaxSigObs
        /\ analyze_packet(packet, ClfNoModel)
        /\ trace' = Append(trace, packet)
        /\ UNCHANGED <<server_vars, race_vars, matcher_vars, dedup_vars>>

NextSig == SigObserve

SpecSig == Init /\ [][NextSig]_vars

\* SpecRules: rules are enabled and disabled, packets are matched
RuleIds == DOMAIN CATEGORIES \cup {"NOT_A_RULE"}
IdSets ==
    {{}} \cup {{i} : i \in RuleIds}
         \cup {{"SYN_SCAN", "NOT_A_RULE"}, {"SSH_BRUTE_FORCE", "HTTP_FLOOD"}}
RulePackets ==
    [flags : {0, 2, 41}, protocol : {"tcp", "UDP", "icmp"}, dst_port : {22, 80}]

EnableRules ==
    \E ids \in IdSets :
        /\ Cardinality(enabled_attacks \cup (ids \cap DOMAIN CATEGORIES)) <= MaxEnabled
        /\ enable_attack_detection(ids)
        /\ UNCHANGED <<server_vars, race_vars, engine_vars, dedup_vars>>

DisableRules ==
    \E ids \in IdSets :
        /\ disable_attack_detection(ids)
        /\ UNCHANGED <<server_vars, race_vars, engine_vars, dedup_vars>>

MatchPacket ==
    \E packet_data \in RulePackets :
        /\ auto_analyze_packet(packet_data)
        /\ UNCHANGED <<server_vars, race_vars, engine_vars, dedup_vars>>

NextRules == EnableRules \/ DisableRules \/ MatchPacket

SpecRules == Init /\ [][NextRules]_vars

\* SpecDedup: results reach add_threat_detection while the clock advances
\* and the rate limit is reconfigured
DedupTypes == {"SYN_SCAN", "DoS"}
DedupSources == {"10.0.0.1"}
NewLimits == {0, 2, 61}

Detect ==
    \E t \in DedupTypes, s \in DedupSources, threat \in BOOLEAN :
        /\ add_threat_detection([srcip |-> s],
                                [threat_detected |-> threat, attack_type |-> t])
        /\ UNCHANGED <<server_vars, race_vars, engine_vars, matcher_vars, THREAT_RATE_LIMIT_SECONDS, clock>>

SetRateLimit ==
    \E new_limit \in NewLimits :
        /\ api_rate_limit(new_limit)
        /\ UNCHANGED <<server_vars, race_vars, engine_vars, matcher_vars, clock>>

Tick ==
    /\ clock < MaxClock
    /\ clock' = clock + 1
    /\ UNCHANGED <<server_vars, race_vars, engine_vars, matcher_vars, threat_rate_limiter,
                   THREAT_RATE_LIMIT_SECONDS, emitted, dedup_result>>

NextDedup == Detect \/ SetRateLimit \/ Tick

SpecDedup == Init /\ [][NextDedup]_vars

-----------------------------------------------------------------------------
(* SpecServer: clients connect, write request texts back to back or one at  *)
(* a time, and hang up; the network hands the bytes over in pieces          *)
MaxRequests == 2
RequestTexts == DOMAIN Documents \cup {"5", "not json"}

TotalSent == SumLen([c \in Conns |-> conn[c].sent], Conns)

drain_vars == <<updates, drain_clock, retrainer, drain_result>>

Accept ==
    \E c \in Conns :
        /\ accept(c)
        /\ UNCHANGED <<engine_vars, matcher_vars, dedup_vars, race_vars, drain_vars,
                       _stop, process, update_buffer, fed, srv_result>>

Send ==
    \E c \in Conns, text \in RequestTexts :
        /\ conn[c].state = "open"
        /\ ~conn[c].eof
        /\ TotalSent < MaxRequests
        /\ conn' = [conn EXCEPT ![c].wire = @ \o text, ![c].sent = Append(@, text)]
        /\ UNCHANGED <<engine_vars, matcher_vars, dedup_vars, race_vars, drain_vars,
                       _stop, process, update_buffer, fed, srv_result>>

Close ==
    \E c \in Conns :
        /\ conn[c].state = "open"
        /\ ~conn[c].eof
        /\ conn' = [conn EXCEPT ![c].eof = TRUE]
        /\ UNCHANGED <<engine_vars, matcher_vars, dedup_vars, race_vars, drain_vars,
                       _stop, process, update_buffer, fed, srv_result>>

Receive ==
    \E c \in Conns :
        /\ _handle_client(c)
        /\ UNCHANGED <<matcher_vars, dedup_vars, race_vars, drain_vars, _stop, process>>

ReadTimeout ==
    \E c \in Conns :
        /\ recv_timeout(c)
        /\ UNCHANGED <<engine_vars, matcher_vars, dedup_vars, race_vars, drain_vars,
                       _stop, process, update_buffer, fed, srv_result>>

Interrupt ==
    /\ keyboard_interrupt
    /\ UNCHANGED <<engine_vars, matcher_vars, dedup_vars, race_vars, drain_vars,
                   process, conn, update_buffer, fed, srv_result>>

NextServer == Accept \/ Send \/ Close \/ Receive \/ ReadTimeout \/ Interrupt

SpecServer == Init /\ [][NextServer]_vars

\* SpecDrain: labeled samples arrive while the retrainer thread wakes up, its
\* writes succeed or fail, and the server is shut down
MaxFeedback == 5
MaxWakes == 4

Submit ==
    /\ process = "up"
    /\ ~_stop
    /\ fed < MaxFeedback
    /\ _process_request(Documents["{L}"])
    /\ UNCHANGED <<matcher_vars, dedup_vars, race_vars, drain_vars, _stop, process, conn>>

Wake ==
    /\ drain_clock < MaxWakes * retrain_interval
    /\ _background_retrainer
    /\ UNCHANGED <<engine_vars, matcher_vars, dedup_vars, race_vars,
                   _stop, process, conn, fed, srv_result>>

Exit ==
    /\ process_exit
    /\ UNCHANGED <<engine_vars, matcher_vars, dedup_vars, race_vars,
                   _stop, conn, update_buffer, fed, updates, drain_clock,
                   srv_result, drain_result>>

NextDrain == Submit \/ Wake \/ Interrupt \/ Exit

SpecDrain == Init /\ [][NextDrain]_vars

\* SpecScanRace: two handler threads analyse one packet each of the same source
RacePackets ==
    {[srcip |-> SigSource, dst_port |-> p, protocol |-> "tcp",
      flags |-> IntFlags(fl), timestamp |-> ts] :
         p \in {80}, fl \in {1, 2}, ts \in {0, 100}}

ScanBegin ==
    \E w \in Workers, packet \in RacePackets :
        /\ scan_begin(w, packet)
        /\ UNCHANGED <<hist, request, response, trace, matcher_vars, dedup_vars,
                       server_vars, dedup_worker, queue_vars>>

ScanRecord ==
    \E w \in Workers :
        /\ scan_record(w)
        /\ UNCHANGED <<hist, request, response, trace, matcher_vars, dedup_vars,
                       server_vars, dedup_worker, queue_vars>>

ScanClean ==
    \E w \in Workers :
        /\ scan_clean(w)
        /\ UNCHANGED <<hist, request, response, trace, matcher_vars, dedup_vars,
                       server_vars, dedup_worker, queue_vars>>

ScanEvaluate ==
    \E w \in Workers :
        /\ scan_evaluate(w)
        /\ UNCHANGED <<hist, request, response, trace, matcher_vars, dedup_vars,
                       server_vars, dedup_worker, queue_vars>>

NextScanRace == ScanBegin \/ ScanRecord \/ ScanClean \/ ScanEvaluate

SpecScanRace == Init /\ [][NextScanRace]_vars

\* SpecDedupRace: two threads report a threat each while time passes
DedupBegin ==
    \E w \in Workers, t \in DedupTypes, s \in DedupSources :
        /\ dedup_begin(w, [srcip |-> s], [threat_detected |-> TRUE, attack_type |-> t])
        /\ UNCHANGED <<engine_vars, matcher_vars, server_vars, scan_worker,
                       queue_vars, THREAT_RATE_LIMIT_SECONDS, clock, emitted,
                       dedup_result>>

DedupStep ==
    \E w \in Workers :
        /\ dedup_step(w)
        /\ UNCHANGED <<engine_vars, matcher_vars, server_vars, scan_worker,
                       queue_vars, THREAT_RATE_LIMIT_SECONDS, clock, emitted,
                       dedup_result>>

NextDedupRace == DedupBegin \/ DedupStep \/ Tick

SpecDedupRace == Init /\ [][NextDedupRace]_vars

\* SpecQueueRace: handler threads queue labeled samples while the retrainer
\* thread drains, every thread one step at a time.  A handler takes
\* update_lock, appends and releases (lines 149-151); the retrainer wakes,
\* takes the lock, pops one sample per turn of its loop, releases and writes
\* the batch (lines 165-183).
Queuing == {w \in Workers : feed_worker[w] # "idle"}

FeedAcquire ==
    \E w \in Workers :
        /\ process = "up"
        /\ feed_worker[w] = "idle"
        /\ fed + Cardinality(Queuing) < MaxFeedback
        /\ update_lock = "free"
        /\ update_lock' = ToString(w)
        /\ feed_worker' = [feed_worker EXCEPT ![w] = "locked"]
        /\ UNCHANGED <<engine_vars, matcher_vars, dedup_vars, server_vars,
                       scan_worker, dedup_worker, drained>>

FeedAppend ==
    \E w \in Workers :
        /\ feed_worker[w] = "locked"
        /\ _process_request(Documents["{L}"])
        /\ feed_worker' = [feed_worker EXCEPT ![w] = "appended"]
        /\ UNCHANGED <<matcher_vars, dedup_vars, drain_vars, _stop, process, conn,
                       scan_worker, dedup_worker, update_lock, drained>>

FeedRelease ==
    \E w \in Workers :
        /\ feed_worker[w] = "appended"
        /\ update_lock' = "free"
        /\ feed_worker' = [feed_worker EXCEPT ![w] = "idle"]
        /\ UNCHANGED <<engine_vars, matcher_vars, dedup_vars, server_vars,
                       scan_worker, dedup_worker, drained>>

DrainAcquire ==
    /\ process = "up"
    /\ retrainer = "sleeping"
    /\ drain_clock < MaxWakes * retrain_interval
    /\ update_lock = "free"
    /\ update_lock' = "retrainer"
    /\ retrainer' = "locked"
    /\ drain_clock' = drain_clock + retrain_interval
    /\ drain_result' = [kind |-> "draining", before |-> update_buffer,
                        batch |-> <<>>, ok |-> TRUE, path |-> drain_clock']
    /\ UNCHANGED <<engine_vars, matcher_vars, dedup_vars, _stop, process, conn,
                   update_buffer, fed, updates, srv_result, scan_worker,
                   dedup_worker, feed_worker, drained>>

DrainPop ==
    /\ retrainer = "locked"
    /\ Len(update_buffer) > 0
    /\ Len(drain_result.batch) < retrain_batch
    /\ LET popped == PopFront(update_buffer)
       IN  /\ update_buffer' = popped.rest
           /\ drain_result' = [drain_result EXCEPT !.batch = Append(@, popped.item)]
           /\ drained' = Append(drained, popped.item.id)
    /\ UNCHANGED <<engine_vars, matcher_vars, dedup_vars, _stop, process, conn,
                   fed, updates, drain_clock, retrainer, srv_result, scan_worker,
                   dedup_worker, update_lock, feed_worker>>

DrainRelease ==
    /\ retrainer = "locked"
    /\ ~(Len(update_buffer) > 0 /\ Len(drain_result.batch) < retrain_batch)
    /\ update_lock' = "free"
    /\ retrainer' = "writing"
    /\ UNCHANGED <<engine_vars, matcher_vars, dedup_vars, _stop, process, conn,
                   update_buffer, fed, updates, drain_clock, srv_result,
                   drain_result, scan_worker, dedup_worker, feed_worker, drained>>

DrainWrite ==
    /\ retrainer = "writing"
    /\ IF drain_result.batch = <<>>
       THEN /\ updates' = updates
            /\ drain_result' = [drain_result EXCEPT !.kind = "idle"]
       ELSE \E w \in WriteOutcomes(drain_result.batch) :
                /\ updates' = IF w.file THEN SetKey(updates, drain_clock, w.lines)
                              ELSE updates
                /\ drain_result' = [drain_result EXCEPT !.kind = "batch",
                                                        !.ok = w.ok]
    /\ retrainer' = IF _stop THEN "stopped" ELSE "sleeping"
    /\ UNCHANGED <<engine_vars, matcher_vars, dedup_vars, _stop, process, conn,
                   update_buffer, fed, drain_clock, srv_result, race_vars>>

NextQueueRace ==
    FeedAcquire \/ FeedAppend \/ FeedRelease
        \/ DrainAcquire \/ DrainPop \/ DrainRelease \/ DrainWrite

SpecQueueRace == Init /\ [][NextQueueRace]_vars

-----------------------------------------------------------------------------
(* Properties *)

Answered == response.kind = "result"
Fin == response.final
Src == request.srcip
Tracked == ip_tracking[Src]

NonDecreasing(h) ==
    \A i \in 1..(Len(h) - 1) : h[i].timestamp <= h[i + 1].timestamp

\* the classifier supplied a non-benign verdict at confidence >= 0.3
ClassifierThreat(ml) ==
    /\ ml.ml_available
    /\ Upper(PredLabel(ml)) \notin {"BENIGN", "NORMAL", "0", "NONE"}
    /\ ~RLt(ml.confidence, <<3, 10>>)

BehavioralResult ==
    /\ Fin.threat_detected
    /\ Fin.model_used = "PortScanDetector (backup)"
    /\ Fin.attack_type = Fin.port_scan_result.attack_type
    /\ REq(Fin.confidence, Fin.port_scan_result.confidence)
    /\ Fin.severity = Fin.port_scan_result.severity

\* C2 as stated: without a classifier threat, a history that triggers the
\* vertical scan yields a behavioural threat of type VERTICAL_SCAN.
C2_Original ==
    (Answered /\ ~ClassifierThreat(Fin.ml_result) /\ VerticalTrigger(Tracked)) =>
        (BehavioralResult /\ Fin.attack_type = "VERTICAL_SCAN")

\* C2: without a classifier threat, a history that triggers the vertical scan
\* yields a threat attributed to the behavioural detector, with the signature
\* engine's attack type, confidence and severity; the type is VERTICAL_SCAN
\* when none of signatures 3 to 6 triggers as well, and SYN_SCAN when the SYN
\* signature triggers and neither the stealth nor the UDP signature does.
C2_Fallback ==
    (Answered /\ ~ClassifierThreat(Fin.ml_result) /\ VerticalTrigger(Tracked)) =>
        /\ BehavioralResult
        /\ (~(SequentialTrigger(Tracked) \/ SynTrigger(Tracked)
               \/ StealthTrigger(Tracked) \/ UdpTrigger(Tracked)))
              => Fin.attack_type = "VERTICAL_SCAN"
        /\ (SynTrigger(Tracked) /\ ~StealthTrigger(Tracked) /\ ~UdpTrigger(Tracked))
              => Fin.attack_type = "SYN_SCAN"

\* a benign classifier verdict and a behavioural VERTICAL_SCAN result
C2_Witness ==
    /\ Answered
    /\ Fin.ml_result.ml_available
    /\ ~ClassifierThreat(Fin.ml_result)
    /\ VerticalTrigger(Tracked)
    /\ Fin.attack_type = "VERTICAL_SCAN"
    /\ Fin.model_used = "PortScanDetector (backup)"

\* C3: when rule 1 does not fire and the signature engine has no finding, the
\* result is a heuristic threat exactly when a heuristic finding exists with
\* confidence strictly above 0.5; otherwise it is benign with severity NONE.
C3_HeuristicRule ==
    (Answered /\ ~ClassifierThreat(Fin.ml_result)
              /\ ~Fin.port_scan_result.threat_detected) =>
        LET h == Fin.heuristic_result
            counts == h.heuristic # NoneStr /\ RLt(<<1, 2>>, h.confidence)
        IN  /\ Fin.threat_detected <=> counts
            /\ counts => /\ Fin.model_used = "Heuristic (backup)"
                         /\ Fin.attack_type = h.heuristic
                         /\ REq(Fin.confidence, h.confidence)
                         /\ Fin.severity = h.severity
            /\ ~counts => /\ Fin.severity = "NONE"
                          /\ Fin.attack_type = "BENIGN"

\* a heuristic finding above 0.5 is returned while the signature engine is silent
C3_Witness ==
    /\ Answered
    /\ ~Fin.port_scan_result.threat_detected
    /\ Fin.threat_detected
    /\ Fin.model_used = "Heuristic (backup)"
    /\ Fin.attack_type = "BRUTE_FORCE"

\* C4: every analyze_packet call has recorded its observation in the source's
\* tracked state and evaluated the signatures on the updated state, whether or
\* not the classifier is available and whether or not its verdict wins.
C4_AlwaysTracked ==
    Answered =>
        /\ Src \in DOMAIN ip_tracking
        /\ request.dst_port \in Tracked.ports
        /\ Len(Tracked.timestamps) > 0
        /\ Last(Tracked.timestamps) = request.timestamp
        /\ Last(Tracked.flags) = _parse_tcp_flags(request.flags)
        /\ Last(Tracked.protocols) = Lower(request.protocol)
        /\ Fin.port_scan_result.port_scan_available
        /\ Fin.port_scan_result.unique_ports_accessed = Cardinality(Tracked.ports)
        /\ Fin.port_scan_result.total_connections = Len(Tracked.timestamps)

\* the classifier's verdict won and the source's history still holds the packet
C4_Witness ==
    /\ Answered
    /\ ClassifierThreat(Fin.ml_result)
    /\ Fin.model_used = model_name
    /\ Src \in DOMAIN ip_tracking
    /\ Len(Tracked.timestamps) >= 2
    /\ Last(Tracked.timestamps) = request.timestamp

\* C5: a classifier that is not loaded or raises is an absent verdict: the
\* call returns a result, not an error, and the result is the behavioural
\* finding if there is one, else the heuristic finding above 0.5, else benign.
C5_ClassifierAbsent ==
    response.kind \in {"none", "result"} /\
    ((Answered /\ ~Fin.ml_result.ml_available) =>
        LET h == Fin.heuristic_result
            counts == h.heuristic # NoneStr /\ RLt(<<1, 2>>, h.confidence)
        IN  /\ Fin.model_used # model_name
            /\ Fin.port_scan_result.threat_detected => BehavioralResult
            /\ (~Fin.port_scan_result.threat_detected /\ counts) =>
                   (Fin.threat_detected /\ Fin.model_used = "Heuristic (backup)")
            /\ (~Fin.port_scan_result.threat_detected /\ ~counts) =>
                   /\ ~Fin.threat_detected
                   /\ Fin.attack_type = "BENIGN"
                   /\ Fin.severity = "NONE"
                   /\ REq(Fin.confidence, Zero))

\* the classifier raised and the behavioural detector decided the result
C5_Witness ==
    /\ Answered
    /\ Fin.ml_result.error = "prediction raised"
    /\ Fin.threat_detected
    /\ Fin.model_used = "PortScanDetector (backup)"

\* C6 as stated: after every call, every timestamp retained for the source lies
\* in [now - window_size, now], for any arrival order of the timestamps.
C6_WindowInvariant ==
    Answered =>
        \A i \in 1..Len(Tracked.timestamps) :
            /\ request.timestamp - window_size <= Tracked.timestamps[i]
            /\ Tracked.timestamps[i] <= request.timestamp

RetainedOf(h, now) ==
    LET keep(e) == e.timestamp >= now - window_size
    IN  SelectSeq(h, keep)

\* C7: for a source whose observations arrive at non-decreasing times, a call
\* leaves exactly the samples not older than window_size (one exactly
\* window_size old is kept), timestamp, flag and protocol together, and the
\* returned span and connection count are those of the retained samples.
C7_Eviction ==
    (Answered /\ NonDecreasing(hist[Src])) =>
        LET kept == RetainedOf(hist[Src], request.timestamp)
            n == Len(kept)
        IN  /\ Tracked.timestamps = [i \in 1..n |-> kept[i].timestamp]
            /\ Tracked.flags = [i \in 1..n |-> kept[i].flags]
            /\ Tracked.protocols = [i \in 1..n |-> kept[i].protocol]
            /\ Fin.port_scan_result.total_connections = n
            /\ Fin.port_scan_result.time_window =
                   IF n > 1 THEN kept[n].timestamp - kept[1].timestamp ELSE 1

\* the first observation was evicted and one exactly window_size old was kept
C7_Witness ==
    /\ Answered
    /\ NonDecreasing(hist[Src])
    /\ Len(hist[Src]) = 3
    /\ Len(Tracked.timestamps) = 2
    /\ Tracked.timestamps[1] = request.timestamp - window_size
    /\ Fin.port_scan_result.time_window = window_size

\* C8: the timestamp, flag and protocol sequences of every source have the
\* same length and hold, index for index, the last samples appended for it.
C8_Aligned ==
    \A s \in DOMAIN ip_tracking :
        LET d == ip_tracking[s]
            n == Len(d.timestamps)
            off == Len(hist[s]) - n
        IN  /\ Len(d.flags) = n
            /\ Len(d.protocols) = n
            /\ off >= 0
            /\ \A i \in 1..n :
                  /\ d.timestamps[i] = hist[s][off + i].timestamp
                  /\ d.flags[i] = hist[s][off + i].flags
                  /\ d.protocols[i] = hist[s][off + i].protocol

\* an eviction left two samples of different flags and protocols
C8_Witness ==
    \E s \in DOMAIN ip_tracking :
        LET d == ip_tracking[s]
        IN  /\ Len(d.timestamps) = 2
            /\ Len(hist[s]) > 2
            /\ d.flags[1] # d.flags[2]
            /\ d.protocols[1] # d.protocols[2]

\* C9: a source's port set only grows from call to call, and the snapshot
\* reports its size.
C9_PortsGrow ==
    [][/\ \A s \in DOMAIN ip_tracking :
             /\ s \in DOMAIN ip_tracking'
             /\ ip_tracking[s].ports \subseteq ip_tracking'[s].ports
       /\ response'.kind = "result" =>
             response'.final.port_scan_result.unique_ports_accessed
                 = Cardinality(ip_tracking'[request'.srcip].ports)]_vars

\* every older timestamp was evicted and both ports are still counted
C9_Witness ==
    /\ Answered
    /\ Len(hist[Src]) >= 2
    /\ Len(Tracked.timestamps) = 1
    /\ Fin.port_scan_result.unique_ports_accessed = 2

\* C10 as stated: the span returned by every call is at least 1 second.
C10_SpanFloor ==
    Answered => Fin.port_scan_result.time_window >= 1

-----------------------------------------------------------------------------
(* The signature engine, under SpecSig *)

Scan == Fin.port_scan_result

SevRank(sev) ==
    CASE sev = "NONE" -> 0 [] sev = "LOW" -> 1 [] sev = "MEDIUM" -> 2
      [] sev = "HIGH" -> 3 [] sev = "CRITICAL" -> 4

\* the source's first ten packets went to ten distinct ports within a second
TenPortsInASecond ==
    /\ Answered
    /\ Len(trace) = threshold_ports
    /\ Cardinality(Tracked.ports) = threshold_ports
    /\ \A i, j \in 1..Len(trace) : trace[i].timestamp - trace[j].timestamp <= 1

\* C11 as stated: ten packets to ten distinct ports within a second make the
\* tenth call return VERTICAL_SCAN, confidence >= 0.95, severity HIGH, whatever
\* the ports, flags and protocol.
C11_Original ==
    TenPortsInASecond =>
        /\ Scan.attack_type = "VERTICAL_SCAN"
        /\ RLe(<<95, 100>>, Scan.confidence)
        /\ Scan.severity = "HIGH"

\* C11: ten packets to ten distinct ports within a second make the tenth call
\* return a finding of confidence >= 0.95; its type is that of the last of the
\* sequential, SYN and stealth signatures that triggers as well, and
\* VERTICAL_SCAN when none of them does; its severity is CRITICAL when the
\* stealth signature triggers and HIGH otherwise.
C11_Vertical ==
    TenPortsInASecond =>
        /\ Scan.threat_detected
        /\ RLe(<<95, 100>>, Scan.confidence)
        /\ Scan.attack_type =
              IF StealthTrigger(Tracked) THEN _identify_stealth_scan_type(Tracked.flags)
              ELSE IF SynTrigger(Tracked) THEN "SYN_SCAN"
              ELSE IF SequentialTrigger(Tracked) THEN "SEQUENTIAL_SCAN"
              ELSE "VERTICAL_SCAN"
        /\ Scan.severity = IF StealthTrigger(Tracked) THEN "CRITICAL" ELSE "HIGH"

\* ten packets, none of the later signatures triggers: VERTICAL_SCAN, HIGH
C11_Witness ==
    /\ TenPortsInASecond
    /\ ~SequentialTrigger(Tracked) /\ ~SynTrigger(Tracked) /\ ~StealthTrigger(Tracked)
    /\ Scan.attack_type = "VERTICAL_SCAN"
    /\ Scan.severity = "HIGH"
    /\ RLe(<<95, 100>>, Scan.confidence)

\* C12 as stated: more than 3 stealth samples together with SYN-only samples
\* in the tracked flags give a finding of severity CRITICAL named after the
\* stealth subtype.
C12_StealthPriority ==
    (/\ Answered
     /\ Count(Tracked.flags, stealth_flags) > StealthMinCount
     /\ Count(Tracked.flags, syn_flags) > 0) =>
        /\ Scan.severity = "CRITICAL"
        /\ Scan.attack_type \in {"FIN_SCAN", "NULL_SCAN", "XMAS_SCAN"}

\* C13 as stated: once the stealth check has made the finding CRITICAL, no
\* later check changes its attack type.
C13_CriticalTypeKept ==
    (Answered /\ StealthTrigger(Tracked)) =>
        Scan.attack_type = _identify_stealth_scan_type(Tracked.flags)

\* C14 as stated: the returned confidence and severity are at least those of
\* every signature that triggered.
C14_OnlyRaises ==
    Answered =>
        /\ VerticalTrigger(Tracked) =>
              /\ RLe(Pattern1(NoFinding, Tracked).confidence, Scan.confidence)
              /\ SevRank(Scan.severity) >= SevRank("HIGH")
        /\ RapidTrigger(Tracked) =>
              /\ RLe(Pattern2(NoFinding, ConnectionRate(Tracked)).confidence,
                     Scan.confidence)
              /\ SevRank(Scan.severity) >= SevRank("HIGH")
        /\ SequentialTrigger(Tracked) =>
              /\ RLe(<<92, 100>>, Scan.confidence)
              /\ SevRank(Scan.severity) >= SevRank("HIGH")
        /\ SynTrigger(Tracked) =>
              /\ RLe(<<96, 100>>, Scan.confidence)
              /\ SevRank(Scan.severity) >= SevRank("HIGH")
        /\ StealthTrigger(Tracked) =>
              /\ RLe(<<98, 100>>, Scan.confidence)
              /\ SevRank(Scan.severity) >= SevRank("CRITICAL")
        /\ UdpTrigger(Tracked) =>
              /\ RLe(<<89, 100>>, Scan.confidence)
              /\ SevRank(Scan.severity) >= SevRank("MEDIUM")

\* C15: more than 15 ports <= 1023 in the source's port set make the finding
\* CRITICAL, with the attack type and the confidence that signatures 1-6 chose.
C15_WellKnownEscalation ==
    (Answered /\ WellKnownTrigger(Tracked)) =>
        /\ Scan.threat_detected
        /\ Scan.severity = "CRITICAL"
        /\ Scan.attack_type = FirstSix(Tracked).scan_type
        /\ REq(Scan.confidence, FirstSix(Tracked).confidence)

\* sixteen well-known ports escalate a finding that signatures 1-6 left below CRITICAL
C15_Witness ==
    /\ Answered
    /\ Cardinality({p \in Tracked.ports : p <= WellKnownPort}) = WellKnownMinCount + 1
    /\ FirstSix(Tracked).severity = "HIGH"
    /\ Scan.severity = "CRITICAL"
    /\ Scan.attack_type = "VERTICAL_SCAN"

AnyTrigger(ip_data) ==
    \/ VerticalTrigger(ip_data) \/ RapidTrigger(ip_data)
    \/ SequentialTrigger(ip_data) \/ SynTrigger(ip_data)
    \/ StealthTrigger(ip_data) \/ UdpTrigger(ip_data)

\* C16: the engine reports a threat exactly when one of signatures 1-6
\* triggers on the source's state; a threat has a positive confidence, and
\* without a trigger the result is threat_detected = false, Normal, NONE, 0.
C16_ThreatIffTrigger ==
    Answered =>
        /\ Scan.threat_detected <=> AnyTrigger(Tracked)
        /\ Scan.threat_detected => RLt(Zero, Scan.confidence)
        /\ ~AnyTrigger(Tracked) =>
              /\ Scan.attack_type = "Normal"
              /\ Scan.severity = "NONE"
              /\ REq(Scan.confidence, Zero)

\* five packets in one second, exactly at the rate limit: nothing triggers
C16_Witness ==
    /\ Answered
    /\ REq(ConnectionRate(Tracked), <<RateLimit, 1>>)
    /\ ~AnyTrigger(Tracked)
    /\ ~Scan.threat_detected
    /\ Scan.attack_type = "Normal"

\* at least SeqMinPorts ports, and more than 60% of the consecutive pairs of
\* the sorted port list are at most SeqMaxGap apart
PairsSequential(ports) ==
    LET sorted_ports == Sorted(ports)
        pairs == Len(sorted_ports) - 1
        close == Cardinality({i \in 1..pairs :
                                 sorted_ports[i + 1] - sorted_ports[i] <= SeqMaxGap})
    IN  Cardinality(ports) >= SeqMinPorts /\ 10 * close > 6 * pairs

\* C17 as stated: signature 3 triggers exactly when the source has at least 5
\* ports and more than 60% of the consecutive pairs of the sorted ports have a
\* gap of at most 2.
C17_SequentialPairs ==
    Answered => (SequentialTrigger(Tracked) <=> PairsSequential(Tracked.ports))

RECURSIVE Replay(_, _, _)
\* the result of the last call when packets[i..] are fed to a detector whose
\* tracking map is tracking
Replay(tracking, packets, i) ==
    LET out == detect_port_scan(tracking, packets[i])
    IN  IF i = Len(packets) THEN out.result
        ELSE Replay(out.tracking, packets, i + 1)

-----------------------------------------------------------------------------
(* The rule matcher, under SpecRules *)

Matched == auto_result.kind = "detections"

\* the weights of the predicates of the rule that the packet matches, in hundredths
WeightSum(rules, packet_data) ==
      (IF "tcp_flags" \in DOMAIN rules
          /\ _check_tcp_flags(packet_data.flags, rules.tcp_flags) THEN 30 ELSE 0)
    + (IF "connection_rate" \in DOMAIN rules
          /\ _check_connection_rate(packet_data, rules.connection_rate) THEN 25 ELSE 0)
    + (IF "protocol" \in DOMAIN rules
          /\ str_upper(packet_data.protocol) = str_upper(rules.protocol) THEN 20 ELSE 0)
    + (IF "dst_port" \in DOMAIN rules
          /\ packet_data.dst_port \in
                (IF rules.dst_port.list
                 THEN {rules.dst_port.v[i] : i \in 1..Len(rules.dst_port.v)}
                 ELSE {rules.dst_port.v}) THEN 15 ELSE 0)
    + (IF "unique_ports" \in DOMAIN rules THEN 10 ELSE 0)

FindingsOf(a) == {d \in auto_result.detections : d.attack_type = a}

\* C19: for every enabled rule the matcher returns a finding exactly when the
\* weights of the rule's matched predicates sum to at least the rule's
\* threshold, the finding's confidence is that sum, and a rule that is not
\* enabled returns no finding.
C19_RuleThreshold ==
    Matched =>
        /\ \A a \in enabled_attacks :
              LET rules == get_detection_rules(a)
                  sum == <<WeightSum(rules, auto_result.packet), 100>>
              IN  /\ (FindingsOf(a) # {}) <=> RLe(rules.confidence_threshold, sum)
                  /\ \A d \in FindingsOf(a) : REq(d.confidence, sum)
        /\ \A d \in auto_result.detections : d.attack_type \in enabled_attacks

\* a packet matches three predicates of an enabled rule, 0.65 in all, below
\* the rule's threshold: no finding
C19_Witness ==
    /\ Matched
    /\ "SYN_SCAN" \in enabled_attacks
    /\ WeightSum(get_detection_rules("SYN_SCAN"), auto_result.packet) = 65
    /\ "SSH_BRUTE_FORCE" \notin enabled_attacks
    /\ auto_result.detections = {}

-----------------------------------------------------------------------------
(* The alert rate limiter, under SpecDedup *)

ThreatCall == dedup_result.kind = "detection" /\ dedup_result.threat

\* C20 as stated: a threat less than the rate limit after the last returned
\* detection of its key is suppressed and leaves the recorded time alone; a
\* threat at or after the rate limit is returned and records the new time; two
\* returned detections of one key are at least the rate limit apart.
C20_Original ==
    ThreatCall =>
        LET last == dedup_result.previous.at
            key == dedup_result.rate_key
            soon == last # NoTime /\ dedup_result.at - last < THREAT_RATE_LIMIT_SECONDS
        IN  /\ soon => /\ ~dedup_result.returned
                       /\ TimeOf(threat_rate_limiter, key) = dedup_result.recorded
            /\ ~soon => /\ dedup_result.returned
                        /\ TimeOf(threat_rate_limiter, key) = dedup_result.at

\* C20: a threat less than the rate limit after the time recorded for its key
\* is suppressed and leaves the recorded time alone; any other threat is
\* returned and records the new time.  The recorded time is that of the last
\* returned detection of the key unless the rate limit was set since (which
\* clears every recorded time): two returned detections of one key with no
\* change of the rate limit between them are at least the rate limit apart,
\* and the first threat of a key after a change is returned.
C20_Dedup ==
    ThreatCall =>
        LET last == dedup_result.previous
            key == dedup_result.rate_key
            soon == /\ dedup_result.recorded # NoTime
                    /\ dedup_result.at - dedup_result.recorded < THREAT_RATE_LIMIT_SECONDS
        IN  /\ soon => /\ ~dedup_result.returned
                       /\ TimeOf(threat_rate_limiter, key) = dedup_result.recorded
            /\ ~soon => /\ dedup_result.returned
                        /\ TimeOf(threat_rate_limiter, key) = dedup_result.at
            /\ (dedup_result.returned /\ last.at # NoTime /\ ~last.cleared) =>
                   dedup_result.at - last.at >= THREAT_RATE_LIMIT_SECONDS
            /\ (last.at # NoTime /\ last.cleared) => dedup_result.returned
            /\ (last.at # NoTime /\ ~last.cleared /\ dedup_result.recorded # NoTime) =>
                   dedup_result.recorded = last.at

\* a detection returned exactly the rate limit after the previous one of its key
C20_Witness ==
    /\ ThreatCall
    /\ dedup_result.returned
    /\ dedup_result.recorded # NoTime
    /\ ~dedup_result.previous.cleared
    /\ dedup_result.at - dedup_result.previous.at = THREAT_RATE_LIMIT_SECONDS
    /\ threat_rate_limiter[dedup_result.rate_key] = dedup_result.at

\* no recorded time is more than twice the rate limit before the last call
NoStaleEntry ==
    \A k \in DOMAIN threat_rate_limiter :
        ~(dedup_result.at - threat_rate_limiter[k] > THREAT_RATE_LIMIT_SECONDS * 2)

\* C21 as stated: after every call of add_threat_detection, returning a
\* detection or not, no recorded time is older than twice the rate limit.
C21_Original ==
    dedup_result.kind = "detection" => NoStaleEntry

\* C21: after a call that returns a detection no recorded time is older than
\* twice the rate limit; a call that returns none (a suppressed threat or a
\* result that is no threat) leaves the map as it was.
C21_Purge ==
    [][dedup_result'.kind = "detection" =>
          /\ dedup_result'.returned => NoStaleEntry'
          /\ ~dedup_result'.returned => threat_rate_limiter' = threat_rate_limiter]_vars

\* a returned detection purged the entry of another key, recorded more than
\* twice the rate limit before
C21_Witness ==
    /\ ThreatCall
    /\ dedup_result.returned
    /\ \E k \in DOMAIN emitted :
          /\ ~emitted[k].cleared
          /\ dedup_result.at - emitted[k].at > THREAT_RATE_LIMIT_SECONDS * 2
          /\ k \notin DOMAIN threat_rate_limiter


\* the samples written under models/updates so far
Written ==
    UNION {{updates[path][i].id : i \in 1..Len(updates[path])} :
               path \in DOMAIN updates}

WokeUp == drain_clock' # drain_clock

Min2(a, b) == IF a <= b THEN a ELSE b

\* C22: a decoded JSON object with a command key is handled as a control
\* request and never analysed or queued, an object without command and with a
\* label key is queued and never analysed, every other object is analysed
C22_Dispatch ==
    LET p == srv_result.payload
    IN  p.type = "dict" =>
            srv_result.handler =
                IF p.command # NoneStr THEN "command"
                ELSE IF p.label THEN "feedback"
                ELSE "analysis"

\* C23: on a connection whose bytes the server has all read, every request
\* the client sent has its one response, in the order of the requests, also
\* when two requests arrived in the same read
C23_OneResponsePerRequest ==
    \A c \in Conns :
        LET k == conn[c]
        IN  (/\ k.wire = ""
             /\ \A i \in 1..Len(k.sent) : json_loads(k.sent[i]) # DecodeError)
            => /\ Len(k.replies) = Len(k.sent)
               /\ \A i \in 1..Len(k.sent) : k.replies[i].req = k.sent[i]

Malformed(text) == json_loads(text).type # "dict"

\* C24: a request that is invalid JSON, or valid JSON that is no object, is
\* answered with an error object, and no request makes the handler leave the
\* connection
C24_MalformedAnswered ==
    /\ ~srv_result.raised
    /\ \A c \in Conns :
           LET k == conn[c]
           IN  k.wire = "" =>
                   \A i \in 1..Len(k.sent) :
                       Malformed(k.sent[i]) =>
                           /\ i <= Len(k.replies)
                           /\ k.replies[i].kind = "error"
                           /\ k.replies[i].req = k.sent[i]

\* the capacity C25 speaks of; ModelServer configures none
FeedbackCapacity == MaxFeedback - 1

\* C25: the feedback queue never holds more than its capacity; a labeled
\* sample that arrives at a full queue is answered with an error and not
\* stored, and a sample answered with status queued is appended to the queue
C25_QueueBound ==
    [][/\ Len(update_buffer') <= FeedbackCapacity
       /\ (srv_result' # srv_result /\ srv_result'.payload.label) =>
              IF Len(update_buffer) >= FeedbackCapacity
              THEN /\ srv_result'.response.kind = "error"
                   /\ update_buffer' = update_buffer
              ELSE /\ srv_result'.response.kind = "queued"
                   /\ Len(update_buffer') = Len(update_buffer) + 1
                   /\ Last(update_buffer').id = srv_result'.id]_vars

\* C26: a wake-up of the retrainer takes min(queue length, retrain_batch)
\* samples from the front of the queue and leaves the others queued in their
\* order; when its write succeeds the samples are one new file, in the order of
\* their arrival; a wake-up at an empty queue changes and writes nothing
C26_Drain ==
    [][WokeUp =>
          LET n == Min2(Len(update_buffer), retrain_batch)
              batch == SubSeq(update_buffer, 1, n)
          IN  /\ drain_result'.batch = batch
              /\ update_buffer' = SubSeq(update_buffer, n + 1, Len(update_buffer))
              /\ \A i, j \in 1..n : i < j => batch[i].id < batch[j].id
              /\ n = 0 => updates' = updates
              /\ (n > 0 /\ drain_result'.ok) =>
                     /\ drain_result'.path \notin DOMAIN updates
                     /\ updates' = SetKey(updates, drain_result'.path, batch)]_vars

C26_Witness ==
    /\ drain_result.kind = "batch"
    /\ drain_result.ok
    /\ Len(drain_result.before) > retrain_batch
    /\ Len(drain_result.batch) = retrain_batch
    /\ Len(update_buffer) > 0
    /\ Cardinality(DOMAIN updates) > 1
    /\ updates[drain_result.path] = drain_result.batch

\* C27: when the write of a batch fails, the samples of the batch are still
\* in the queue, at its front, for the next wake-up
C27_RetainOnFailure ==
    [][(WokeUp /\ drain_result'.kind = "batch" /\ ~drain_result'.ok) =>
          /\ Len(update_buffer') >= Len(drain_result'.batch)
          /\ SubSeq(update_buffer', 1, Len(drain_result'.batch)) = drain_result'.batch
          /\ retrainer' = IF _stop THEN "stopped" ELSE "sleeping"]_vars

\* C28: when the retrainer thread has ended, every sample that was answered
\* with status queued before the shutdown is in a file under models/updates
C28_ShutdownFlush ==
    retrainer \in {"stopped", "killed"} => \A id \in 1..fed : id \in Written

ScanDone == \A w \in Workers : scan_worker[w].pc = "done"

\* the tracker and the results of worker a's call followed by worker b's
OneAtATime(a, b) ==
    LET first == detect_port_scan(<<>>, scan_worker[a].packet)
        second == detect_port_scan(first.tracking, scan_worker[b].packet)
    IN  /\ ip_tracking = second.tracking
        /\ scan_worker[a].result = [kind |-> "result", result |-> first.result]
        /\ scan_worker[b].result = [kind |-> "result", result |-> second.result]

\* C29: when two workers have analysed a packet each of the same source, the
\* tracker state and the two results are those of one of the two orders of
\* the calls, and the timestamps, flags and protocols of the source have the
\* same length
C29_Linearizable ==
    ScanDone =>
        /\ \E a, b \in Workers : a # b /\ OneAtATime(a, b)
        /\ \A s \in DOMAIN ip_tracking :
               /\ Len(ip_tracking[s].timestamps) = Len(ip_tracking[s].flags)
               /\ Len(ip_tracking[s].timestamps) = Len(ip_tracking[s].protocols)

Returned(w) == dedup_worker[w].pc \in {"emitted", "suppressed"}

\* C30: of two calls for the same key that overlap in time, with no emission
\* for the key before them, exactly one emits
C30_OneEmits ==
    \A a, b \in Workers :
        (/\ a # b
         /\ Returned(a) /\ Returned(b)
         /\ b \in dedup_worker[a].overlap
         /\ dedup_worker[a].rate_key = dedup_worker[b].rate_key
         /\ dedup_worker[a].current_time - dedup_worker[b].current_time
                < THREAT_RATE_LIMIT_SECONDS
         /\ dedup_worker[b].current_time - dedup_worker[a].current_time
                < THREAT_RATE_LIMIT_SECONDS)
        => Cardinality({w \in {a, b} : dedup_worker[w].pc = "emitted"}) = 1


-----------------------------------------------------------------------------
(* The rule registry, under SpecRules *)

\* the checks a rule declares, as matched_rules names them when all match
DeclaredChecks(rules) ==
    (IF "tcp_flags" \in DOMAIN rules THEN <<"tcp_flags">> ELSE <<>>)
    \o (IF "connection_rate" \in DOMAIN rules THEN <<"connection_rate">> ELSE <<>>)
    \o (IF "protocol" \in DOMAIN rules THEN <<"protocol">> ELSE <<>>)
    \o (IF "dst_port" \in DOMAIN rules THEN <<"dst_port">> ELSE <<>>)
    \o (IF "unique_ports" \in DOMAIN rules THEN <<"unique_ports_pattern">> ELSE <<>>)

\* C32: for every rule of the registry the weights of all the checks it
\* declares sum to less than its confidence_threshold, and analyze_packet of
\* the AutomaticDetector returns no finding, whatever rules are enabled
C32_NoRuleFires ==
    /\ \A a \in DOMAIN CATEGORIES :
           RLt(SumWeights(DeclaredChecks(get_detection_rules(a))),
               get_detection_rules(a).confidence_threshold)
    /\ Matched => auto_result.detections = {}

\* a packet that matches every check of an enabled rule, 0.6 in all, with a
\* second rule enabled: no finding
C32_Witness ==
    /\ Matched
    /\ {"SSH_BRUTE_FORCE", "HTTP_FLOOD"} \subseteq enabled_attacks
    /\ MatchedRules(auto_result.packet, detection_rules["SSH_BRUTE_FORCE"])
           = DeclaredChecks(get_detection_rules("SSH_BRUTE_FORCE"))
    /\ Len(DeclaredChecks(get_detection_rules("SSH_BRUTE_FORCE"))) = 3
    /\ auto_result.detections = {}

\* C37: enabled_attacks, the keys of detection_rules and the keys of
\* response_actions are one set of registry ids; enabling ids the registry does
\* not know changes nothing; enabling twice, or disabling twice, is as once
C37_Registry ==
    /\ enabled_attacks = DOMAIN detection_rules
    /\ enabled_attacks = DOMAIN response_actions
    /\ enabled_attacks \subseteq DOMAIN CATEGORIES
    /\ \A ids \in IdSets :
           /\ ids \cap DOMAIN CATEGORIES = {} => Enabled(Registry, ids) = Registry
           /\ Enabled(Enabled(Registry, ids), ids) = Enabled(Registry, ids)
           /\ Disabled(Disabled(Registry, ids), ids) = Disabled(Registry, ids)

\* one of two enabled rules has been disabled
C37_Witness ==
    /\ auto_result.kind = "disabled"
    /\ enabled_attacks = {"HTTP_FLOOD"}
    /\ DOMAIN detection_rules = {"HTTP_FLOOD"}
    /\ Enabled(Registry, {"SYN_SCAN", "NOT_A_RULE"}).enabled_attacks
           = {"HTTP_FLOOD", "SYN_SCAN"}

-----------------------------------------------------------------------------
(* Flag labelling, under SpecFlags *)

\* SpecFlags: one host sends a packet a second to one port.  The flags of its
\* first packet are any 8-bit mask; a later packet repeats that mask or is a
\* plain ACK.
MaxFlagObs == 5
FlagMasks == 0..255

FlagChoices == IF Len(trace) = 0 THEN FlagMasks ELSE {trace[1].flags.v, 16}

FlagObserve ==
    \E m \in FlagChoices :
        LET packet == [srcip |-> SigSource, dst_port |-> 80,
                       protocol |-> "tcp", flags |-> IntFlags(m),
                       timestamp |-> Len(trace)]
        IN  /\ Len(trace) < MaxFlagObs
            /\ analyze_packet(packet, ClfNoModel)
            /\ trace' = Append(trace, packet)
            /\ UNCHANGED <<server_vars, race_vars, matcher_vars, dedup_vars>>

NextFlags == FlagObserve

SpecFlags == Init /\ [][NextFlags]_vars

\* C35: the label recorded for an observation is NULL if and only if its
\* flags mask is 0, so that the stealth signature counts no observation with
\* a flag bit set as a NULL sample
C35_FlagLabel ==
    LET labels == IpData(ip_tracking, SigSource).flags
    IN  \A i \in 1..Len(trace) :
            i <= Len(labels) =>
                ((labels[i] = "NULL") <=> (trace[i].flags.v = 0))

\* four packets with only the ECE bit (64) set are reported as a NULL scan
C35_EceReportedAsNullScan ==
    /\ Len(trace) = 4
    /\ \A i \in 1..4 : trace[i].flags.v = 64
    /\ response.kind = "result"
    /\ response.final.threat_detected
    /\ response.final.attack_type = "NULL_SCAN"

-----------------------------------------------------------------------------
(* The heuristic labels, under SpecHeur *)

\* SpecHeur: one host sends up to MaxHeurObs packets at a fixed pace, all at
\* one instant (a flood) or one a second.  The host walks along WellKnownPool
\* for as long as it likes and then stays on the first port of it.
MaxHeurObs == 52
WellKnownPool == <<21, 22, 23, 25, 53, 80, 110, 143, 443, 993, 995, 1023>>
HeurClassifiers ==
    {ClfNoModel, ClfOk(0, NoneStr, <<90, 100>>), ClfOk(1, "DoS", <<50, 100>>)}

HeurTimes ==
    IF Len(trace) = 0 THEN {0}
    ELSE IF Len(trace) = 1 THEN {0, 1}
    ELSE {Last(trace).timestamp + (trace[2].timestamp - trace[1].timestamp)}

HeurPorts ==
    LET k == Cardinality(IpData(ip_tracking, SigSource).ports)
    IN  {WellKnownPool[1]}
            \cup (IF Len(trace) = k /\ k < Len(WellKnownPool)
                  THEN {WellKnownPool[k + 1]} ELSE {})

HeurObserve ==
    \E ts \in HeurTimes, p \in HeurPorts, clf \in HeurClassifiers :
        LET packet == [srcip |-> SigSource, dst_port |-> p, protocol |-> "tcp",
                       flags |-> IntFlags(16), timestamp |-> ts]
        IN  /\ Len(trace) < MaxHeurObs
            /\ analyze_packet(packet, clf)
            /\ trace' = Append(trace, packet)
            /\ UNCHANGED <<server_vars, race_vars, matcher_vars, dedup_vars>>

NextHeur == HeurObserve

SpecHeur == Init /\ [][NextHeur]_vars

HiddenLabels == {"DOS_ATTACK", "SERVICE_SCAN"}

\* C33: no result of analyze_packet has DOS_ATTACK or SERVICE_SCAN as its
\* attack type; whenever the heuristic returns one of them the signature
\* engine reports a finding for the same observation
C33_HiddenLabels ==
    response.kind = "result" =>
        /\ response.final.attack_type \notin HiddenLabels
        /\ response.final.heuristic_result.heuristic \in HiddenLabels
               => response.final.port_scan_result.threat_detected

\* a flood for which the heuristic says DOS_ATTACK and the result RAPID_SCAN
C33_Witness ==
    /\ response.kind = "result"
    /\ response.final.heuristic_result.heuristic = "DOS_ATTACK"
    /\ response.final.port_scan_result.threat_detected
    /\ response.final.attack_type = "RAPID_SCAN"
    /\ response.final.model_used = "PortScanDetector (backup)"

\* a walk over the well-known ports for which the heuristic says SERVICE_SCAN
\* and the result VERTICAL_SCAN
C33_ServiceScanShadowed ==
    /\ response.kind = "result"
    /\ response.final.heuristic_result.heuristic = "SERVICE_SCAN"
    /\ response.final.attack_type = "VERTICAL_SCAN"

-----------------------------------------------------------------------------
(* Verdict and severity, under SpecLabels *)

\* SpecLabels: the host of SpecHeur sends up to MaxLabelObs packets, and the
\* classifier is unavailable or answers any label of Labels, with or without
\* an encoder, at the bar of 0.3
MaxLabelObs == 52
Labels == {NoneStr, "", "Normal", "Benign", "NONE", "0", "DoS", "INFILTRATION",
           "Mystery"}
LabelClassifiers ==
    {ClfNoModel, ClfRaises, ClfOk(0, NoneStr, <<95, 100>>),
     ClfOk(1, "DoS", <<29, 100>>)}
        \cup {ClfOk(1, l, <<30, 100>>) : l \in Labels}

LabelObserve ==
    \E ts \in HeurTimes, p \in HeurPorts, clf \in LabelClassifiers :
        LET packet == [srcip |-> SigSource, dst_port |-> p, protocol |-> "tcp",
                       flags |-> IntFlags(16), timestamp |-> ts]
        IN  /\ Len(trace) < MaxLabelObs
            /\ analyze_packet(packet, clf)
            /\ trace' = Append(trace, packet)
            /\ UNCHANGED <<server_vars, race_vars, matcher_vars, dedup_vars>>

NextLabels == LabelObserve

SpecLabels == Init /\ [][NextLabels]_vars

\* C34: in every result of analyze_packet threat_detected is true if and
\* only if severity is not NONE
C34_ThreatIffSeverity ==
    response.kind = "result" =>
        (response.final.threat_detected <=> response.final.severity # "NONE")

\* the classifier's verdict with a label the severity table does not list
C34_Witness ==
    /\ response.kind = "result"
    /\ response.final.model_used = model_name
    /\ response.final.threat_detected
    /\ response.final.attack_type = "Mystery"
    /\ response.final.severity = "MEDIUM"

\* the three paths that decide a result and the result without a threat
C34_ScanPath ==
    /\ response.kind = "result"
    /\ response.final.model_used = "PortScanDetector (backup)"
    /\ response.final.ml_result.ml_available
    /\ response.final.severity = "HIGH"

C34_HeuristicPath ==
    /\ response.kind = "result"
    /\ response.final.model_used = "Heuristic (backup)"
    /\ response.final.attack_type = "BRUTE_FORCE"

C34_BenignPath ==
    /\ response.kind = "result"
    /\ Len(trace) > 1
    /\ response.final.ml_result.pred_class = "Normal"
    /\ ~response.final.threat_detected
    /\ response.final.severity = "NONE"

-----------------------------------------------------------------------------
(* The accumulated port set, under SpecSticky *)

\* SpecSticky: one host walks along PortPool for as long as it likes and
\* then stays on its first port; between two packets it waits a second or
\* longer than the window
MaxStickyObs == 12
StickyGaps == {1, 100}

StickyTimes ==
    IF Len(trace) = 0 THEN {0} ELSE {Last(trace).timestamp + g : g \in StickyGaps}

StickyPorts ==
    LET k == Cardinality(IpData(ip_tracking, SigSource).ports)
    IN  {PortPool[1]}
            \cup (IF Len(trace) = k /\ k < Len(PortPool)
                  THEN {PortPool[k + 1]} ELSE {})

StickyObserve ==
    \E ts \in StickyTimes, p \in StickyPorts :
        LET packet == [srcip |-> SigSource, dst_port |-> p, protocol |-> "tcp",
                       flags |-> IntFlags(16), timestamp |-> ts]
        IN  /\ Len(trace) < MaxStickyObs
            /\ analyze_packet(packet, ClfNoModel)
            /\ trace' = Append(trace, packet)
            /\ UNCHANGED <<server_vars, race_vars, matcher_vars, dedup_vars>>

NextSticky == StickyObserve

SpecSticky == Init /\ [][NextSticky]_vars

PortsSeen == {trace[i].dst_port : i \in 1..Len(trace)}

\* C36: once the source has used threshold_ports distinct ports, the
\* signature engine reports a threat for that and for every later
\* observation of the source
C36_StickyVertical ==
    [](Cardinality(PortsSeen) >= threshold_ports
           => [](/\ response.kind = "result"
                 /\ response.final.port_scan_result.threat_detected))

\* a packet to a port used before, longer than the window after the tenth
\* port, alone in the window and still reported as a vertical scan
C36_Witness ==
    /\ Len(trace) = 11
    /\ Cardinality(PortsSeen) = threshold_ports
    /\ trace[11].dst_port = PortPool[1]
    /\ trace[11].timestamp - trace[10].timestamp > window_size
    /\ Len(ip_tracking[SigSource].timestamps) = 1
    /\ response.final.port_scan_result.threat_detected
    /\ response.final.attack_type = "VERTICAL_SCAN"

-----------------------------------------------------------------------------
(* The statistics command, under SpecStats *)

\* SpecStats: requests reach _process_request one at a time: the three forms
\* of the statistics command, a ping, a packet to analyse (at most MaxStatsObs
\* of them) and a labelled sample
MaxStatsObs == 12
StatsTexts == {"{Cs}", "{Cu}", "{Cg}", "{Cp}", "{P}", "{L}"}

StatsRequest ==
    \E text \in StatsTexts :
        /\ process = "up"
        /\ text = "{P}" => TotalObs < MaxStatsObs
        /\ text = "{L}" => fed < MaxFeedback
        /\ _process_request(json_loads(text))
        /\ UNCHANGED <<_stop, process, conn, drain_vars, race_vars,
                       matcher_vars, dedup_vars>>

NextStats == StatsRequest

SpecStats == Init /\ [][NextStats]_vars

StatsSources == {"10.0.0.1", "10.0.0.9", NoneStr}

\* C39: get_port_scan_stats changes no tracking state, for a tracked source,
\* for an unknown source (an error answer) and for no source (the global
\* statistics); it creates no tracking entry
C39_StatsReadOnly ==
    [][/\ \A s \in StatsSources :
              get_statistics(ip_tracking, s).tracking = ip_tracking
       /\ srv_result'.handler = "command"
              => /\ ip_tracking' = ip_tracking
                 /\ DOMAIN ip_tracking' = DOMAIN ip_tracking]_vars

\* the statistics of an unknown source asked for while another is tracked
C39_Witness ==
    /\ srv_result.handler = "command"
    /\ srv_result.payload.command = "get_port_scan_stats"
    /\ srv_result.payload.srcip = "10.0.0.9"
    /\ srv_result.response.kind = "error"
    /\ DOMAIN ip_tracking = {"10.0.0.1"}

\* the statistics of the tracked source and the global statistics
C39_TrackedAnswered ==
    /\ srv_result.handler = "command"
    /\ srv_result.response.kind = "statistics"
    /\ srv_result.response.total_connections = 3

C39_GlobalAnswered ==
    /\ srv_result.handler = "command"
    /\ srv_result.response.kind = "global"
    /\ srv_result.response.total_tracked_ips = 1

-----------------------------------------------------------------------------
(* The rate-limiter key, under SpecDedupKeys *)

\* SpecDedupKeys: threat results of the pairs KeyTypes x KeySources are
\* handed to add_threat_detection while the clock runs, until MaxAlerts of
\* them were emitted; request and response hold the packet and the result of
\* the last call, trace the calls that were emitted
MaxAlerts == 3
KeyTypes == {"PORT", "PORT_SCAN"}
KeySources == {"SCAN_h", "h"}

DetectPair ==
    \E t \in KeyTypes, s \in KeySources :
        LET packet_data == [NoRequest EXCEPT !.srcip = s]
            result == [threat_detected |-> TRUE, attack_type |-> t]
        IN  /\ Len(trace) < MaxAlerts
            /\ add_threat_detection(packet_data, result)
            /\ request' = packet_data
            /\ response' = [kind |-> "result", final |-> result]
            /\ trace' = IF dedup_result'.returned
                        THEN Append(trace, [attack_type |-> t, srcip |-> s,
                                            at |-> clock])
                        ELSE trace
            /\ UNCHANGED <<server_vars, race_vars, matcher_vars, ip_tracking,
                           hist, THREAT_RATE_LIMIT_SECONDS, clock>>

NextDedupKeys == DetectPair \/ Tick

SpecDedupKeys == Init /\ [][NextDedupKeys]_vars

\* C40: results of different (attack type, source) pairs have different
\* keys, and a result is suppressed only when a result of its own pair was
\* emitted less than the rate limit before it
C40_KeySeparation ==
    /\ \A i, j \in 1..Len(trace) :
           RateKey(trace[i].attack_type, trace[i].srcip)
                   = RateKey(trace[j].attack_type, trace[j].srcip)
               => /\ trace[i].attack_type = trace[j].attack_type
                  /\ trace[i].srcip = trace[j].srcip
    /\ (/\ dedup_result.kind = "detection"
        /\ dedup_result.threat
        /\ ~dedup_result.returned)
           => \E i \in 1..Len(trace) :
                  /\ trace[i].attack_type = response.final.attack_type
                  /\ trace[i].srcip = request.srcip
                  /\ dedup_result.at - trace[i].at < THREAT_RATE_LIMIT_SECONDS

\* the alert for (PORT_SCAN, h) suppressed by the one emitted for
\* (PORT, SCAN_h) and by no other
C40_SuppressedByOtherPair ==
    /\ dedup_result.kind = "detection"
    /\ ~dedup_result.returned
    /\ response.final.attack_type = "PORT_SCAN"
    /\ request.srcip = "h"
    /\ Len(trace) = 1
    /\ trace[1].attack_type = "PORT"
    /\ trace[1].srcip = "SCAN_h"

-----------------------------------------------------------------------------
(* The feedback queue, under SpecQueueRace *)

Ids(q) == [i \in 1..Len(q) |-> q[i].id]

\* C31: the samples popped so far followed by the samples still queued are
\* the samples that were queued, each once and in the order of queuing, and
\* the batch in the retrainer's hands is the end of what was popped
C31_QueueFifo ==
    /\ drained \o Ids(update_buffer) = [i \in 1..fed |-> i]
    /\ retrainer \in {"locked", "writing"} =>
           LET n == Len(drain_result.batch)
           IN  /\ n <= Len(drained)
               /\ Ids(drain_result.batch)
                      = SubSeq(drained, Len(drained) - n + 1, Len(drained))

\* a handler appends its sample while the retrainer writes its second batch
\* and another sample waits in the queue
C31_Witness ==
    /\ retrainer = "writing"
    /\ drained = <<1, 2, 3>>
    /\ Ids(drain_result.batch) = <<3>>
    /\ update_lock # "free"
    /\ \E w \in Workers : feed_worker[w] = "appended"
    /\ Ids(update_buffer) = <<4, 5>>

-----------------------------------------------------------------------------
(* Drain liveness, under SpecDrainFair *)

\* SpecDrainFair: samples are queued while the retrainer wakes up; no write
\* fails and nobody stops the server.  The retrainer thread sleeps for
\* retrain_interval and runs again, so its turn is taken whenever it stays
\* possible (weak fairness).  A sample is queued only while the wake-ups left
\* to a behaviour can still take it.
WakesLeft == MaxWakes - drain_clock \div retrain_interval

SubmitFair ==
    /\ WakesLeft * retrain_batch >= Len(update_buffer) + 1
    /\ Submit

WakeOk ==
    /\ Wake
    /\ drain_result'.ok

NextDrainFair == SubmitFair \/ WakeOk

SpecDrainFair == Init /\ [][NextDrainFair]_vars /\ WF_vars(WakeOk)

\* C38: every sample that was queued is eventually in a file of
\* models/updates, also while more samples are queued
C38_DrainLiveness ==
    \A id \in 1..MaxFeedback : (fed >= id) ~> (id \in Written)

\* the first batch is written while three samples queued after it wait
C38_Witness ==
    /\ Written = {1, 2}
    /\ Len(update_buffer) = 3
    /\ fed = 5
    /\ drain_result.kind = "batch"
    /\ drain_result.ok

=============================================================================
